---------------------------- MODULE Spec2Model ----------------------------
(***************************************************************************)
(* A model of the binary decoding substrate of malbeclabs/doublezero's     *)
(* Python SDKs: the cursor reader (borsh_incremental), the tagged-variant  *)
(* record decoders (serviceability), batch dispatch (the two               *)
(* get_program_data clients) and the fixed-layout decoders (revdist).      *)
(*                                                                         *)
(* Representation.  A buffer is a sequence of bytes (0..255), 1-indexed;   *)
(* a cursor offset o names the byte data[o+1].  An unsigned integer of     *)
(* width w is carried as its base-256 little-endian numeral, a sequence of *)
(* w digits, so that 64- and 128-bit values stay exact; AsCount gives the  *)
(* number of a u32 numeral, saturated at Huge.  An f64 is carried as its   *)
(* 8-byte bit pattern, a str as its UTF-8 bytes.                           *)
(***************************************************************************)
EXTENDS Integers, Sequences, FiniteSets, TLC

VARIABLES
    data,        \* IncrementalReader._data
    offset,      \* IncrementalReader._offset
    prevOffset,  \* history: the offset before the last call
    lastOp,      \* history: the name of the last method called
    lastArg,     \* history: its argument (n of read_bytes, default of try_read_*)
    lastRes,     \* history: what it returned, or that it raised
    din,         \* the account a record decoder is given: how it was made
    ddata,       \* its bytes
    dout,        \* what from_bytes returned, or that it raised
    bimpl,       \* which client's get_program_data runs
    accounts,    \* the accounts the RPC returned, in order
    bpos,        \* the account the loop is at
    pd,          \* the ProgramData being filled
    placed,      \* history: the accounts a decoded record was stored for
    bstatus,     \* running, returned, or raised
    ftype,       \* the fixed-layout account type being decoded
    fdisc,       \* the discriminator from_bytes is given
    fdata,       \* the buffer from_bytes is given
    fout,        \* what from_bytes returned, or that it raised
    fasserted,   \* the structs whose byte-coverage assert ran in the call
    iimpl,       \* which client's Interface decoder runs
    idata,       \* the buffer it reads from
    ioff,        \* the cursor when it is called
    iout,        \* what it returned, or that it raised
    tkind,       \* which telemetry account decoder runs
    tdata,       \* the buffer from_bytes is given
    tout,        \* what from_bytes returned, or that it raised
    max_retries, \* _RetryTransport: the retries it was built with
    attempt,     \* the loop variable of handle_request
    response,    \* the status of the response it holds, 0 before the first
    rstatus,     \* running, sleeping, returned, or raised
    calls,       \* history: the statuses the wrapped transport has returned
    closed,      \* history: how many responses were closed
    slept        \* history: the seconds of each wait

readerVars == <<data, offset, prevOffset, lastOp, lastArg, lastRes>>

decodeVars == <<din, ddata, dout>>

batchVars == <<bimpl, accounts, bpos, pd, placed, bstatus>>

fixedVars == <<ftype, fdisc, fdata, fout, fasserted>>

interfaceVars == <<iimpl, idata, ioff, iout>>

telemetryVars == <<tkind, tdata, tout>>

retryVars == <<max_retries, attempt, response, rstatus, calls, closed, slept>>

vars ==
    <<readerVars, decodeVars, batchVars, fixedVars, interfaceVars, telemetryVars,
      retryVars>>

\* The components other than c do not run: their variables stay empty.
Idle(c) ==
    /\ IF c = "reader" THEN TRUE
       ELSE /\ data = <<>>
            /\ offset = 0
            /\ prevOffset = 0
            /\ lastOp = "idle"
            /\ lastArg = <<>>
            /\ lastRes = <<>>
    /\ IF c = "decode" THEN TRUE
       ELSE /\ din = <<>>
            /\ ddata = <<>>
            /\ dout = <<>>
    /\ IF c = "batch" THEN TRUE
       ELSE /\ bimpl = "none"
            /\ accounts = <<>>
            /\ bpos = 0
            /\ pd = <<>>
            /\ placed = {}
            /\ bstatus = "idle"
    /\ IF c = "fixed" THEN TRUE
       ELSE /\ ftype = "none"
            /\ fdisc = <<>>
            /\ fdata = <<>>
            /\ fout = <<>>
            /\ fasserted = {}
    /\ IF c = "interface" THEN TRUE
       ELSE /\ iimpl = "none"
            /\ idata = <<>>
            /\ ioff = 0
            /\ iout = <<>>
    /\ IF c = "telemetry" THEN TRUE
       ELSE /\ tkind = "none"
            /\ tdata = <<>>
            /\ tout = <<>>
    /\ IF c = "retry" THEN TRUE
       ELSE /\ max_retries = 0
            /\ attempt = 0
            /\ response = 0
            /\ rstatus = "idle"
            /\ calls = <<>>
            /\ closed = 0
            /\ slept = <<>>

---------------------------------------------------------------------------
(* Bounds                                                                  *)

\* The longest buffer handed to a reader.
MaxLen == 36

\* The largest n passed to read_bytes(n).
MaxN == 3

\* The length of every string of an encoded account.
StrLen == 2

\* The length of every key or network vector of an encoded account.
VecLen == 1

\* The number of interfaces of an encoded device.
MaxIfaces == 2

\* Encoded accounts fill their fixed-width fields with a byte in 1..MaxFill.
MaxFill == 2

\* The most accounts in a batch.
MaxBatch == 3

\* The bytes a fixed-layout buffer may have after its struct.
ExtraLen == 3

\* The largest max_retries a retry transport is built with.
MaxRetries == 6

\* The most samples a small telemetry account holds.
MaxSamples == 3

\* Byte i of the body of a fixed-layout buffer is i * fill mod 256, fill in
\* 0..MaxBodyFill.
MaxBodyFill == 2

---------------------------------------------------------------------------
(* Bytes and numerals                                                      *)

\* A count at or above Huge behaves like Huge: every buffer is shorter.
Huge == 65536

Zeros(n) == [i \in 1..n |-> 0]

Rep(n, b) == [i \in 1..n |-> b]

\* data[a:b] of Python, for 0 <= a: the bytes at offsets a .. b-1 that exist.
Slice(d, a, b) == SubSeq(d, a + 1, IF b > Len(d) THEN Len(d) ELSE b)

\* The number a u32 numeral denotes, saturated at Huge.
AsCount(v) == IF v[3] = 0 /\ v[4] = 0 THEN v[1] + 256 * v[2] ELSE Huge

IsCont(b) == b >= 128 /\ b <= 191

\* bytes.decode("utf-8") accepts s (strict: no overlong forms, no surrogates,
\* nothing above U+10FFFF).
RECURSIVE ValidUtf8(_)
ValidUtf8(s) ==
    IF s = <<>> THEN TRUE
    ELSE LET b == s[1]
             n == Len(s)
         IN  IF b <= 127 THEN ValidUtf8(Tail(s))
             ELSE IF b >= 194 /\ b <= 223
                  THEN n >= 2 /\ IsCont(s[2]) /\ ValidUtf8(SubSeq(s, 3, n))
             ELSE IF b >= 224 /\ b <= 239
                  THEN /\ n >= 3
                       /\ IsCont(s[2]) /\ IsCont(s[3])
                       /\ (b = 224 => s[2] >= 160)
                       /\ (b = 237 => s[2] <= 159)
                       /\ ValidUtf8(SubSeq(s, 4, n))
             ELSE IF b >= 240 /\ b <= 244
                  THEN /\ n >= 4
                       /\ IsCont(s[2]) /\ IsCont(s[3]) /\ IsCont(s[4])
                       /\ (b = 240 => s[2] >= 144)
                       /\ (b = 244 => s[2] <= 143)
                       /\ ValidUtf8(SubSeq(s, 5, n))
             ELSE FALSE

---------------------------------------------------------------------------
(* IncrementalReader: each method as a function of (buffer, offset) giving *)
(* the offset it leaves and the value it returns, or the error it raises.  *)

Ok(off, val) == [ok |-> TRUE, off |-> off, val |-> val, err |-> ""]

Raise(off, err) == [ok |-> FALSE, off |-> off, val |-> <<>>, err |-> err]

remaining(d, off) == Len(d) - off

\* read_u8 without its bounds check.
read_u8_unchecked(d, off) ==
    Ok(off + 1, <<IF off + 1 > Len(d) THEN 0 ELSE d[off + 1]>>)

read_u8(d, off) ==
    IF off + 1 > Len(d) THEN Raise(off, "ValueError")
    ELSE Ok(off + 1, <<d[off + 1]>>)

read_bool(d, off) ==
    LET r == read_u8(d, off)
    IN  IF r.ok THEN Ok(r.off, r.val[1] # 0) ELSE r

\* read_u16 that takes the two bytes most significant first.
read_u16_big_endian(d, off) ==
    IF off + 2 > Len(d) THEN Raise(off, "ValueError")
    ELSE Ok(off + 2, <<d[off + 2], d[off + 1]>>)

read_u16(d, off) ==
    IF off + 2 > Len(d) THEN Raise(off, "ValueError")
    ELSE Ok(off + 2, SubSeq(d, off + 1, off + 2))

read_u32(d, off) ==
    IF off + 4 > Len(d) THEN Raise(off, "ValueError")
    ELSE Ok(off + 4, SubSeq(d, off + 1, off + 4))

read_u64(d, off) ==
    IF off + 8 > Len(d) THEN Raise(off, "ValueError")
    ELSE Ok(off + 8, SubSeq(d, off + 1, off + 8))

\* low | (high << 64): the numeral of low followed by the numeral of high.
read_u128(d, off) ==
    IF off + 16 > Len(d) THEN Raise(off, "ValueError")
    ELSE LET low  == SubSeq(d, off + 1, off + 8)
             high == SubSeq(d, off + 9, off + 16)
         IN  Ok(off + 16, low \o high)

read_f64(d, off) ==
    IF off + 8 > Len(d) THEN Raise(off, "ValueError")
    ELSE Ok(off + 8, SubSeq(d, off + 1, off + 8))

\* read_bytes that consumes what is left before it raises.
read_bytes_partial(d, off, n) ==
    IF off + n > Len(d) THEN Raise(Len(d), "ValueError")
    ELSE Ok(off + n, Slice(d, off, off + n))

read_bytes(d, off, n) ==
    IF off + n > Len(d) THEN Raise(off, "ValueError")
    ELSE Ok(off + n, Slice(d, off, off + n))

read_pubkey_raw(d, off) == read_bytes(d, off, 32)

read_ipv4(d, off) == read_bytes(d, off, 4)

read_network_v4(d, off) == read_bytes(d, off, 5)

\* read_string that takes any body for text.
read_string_any_body(d, off) ==
    LET p == read_u32(d, off)
    IN  IF ~p.ok THEN p
        ELSE LET length == AsCount(p.val)
             IN  IF length = 0 THEN Ok(p.off, <<>>)
                 ELSE IF p.off + length > Len(d) THEN Raise(p.off, "ValueError")
                 ELSE Ok(p.off + length, Slice(d, p.off, p.off + length))

read_string(d, off) ==
    LET p == read_u32(d, off)
    IN  IF ~p.ok THEN p
        ELSE LET length == AsCount(p.val)
             IN  IF length = 0 THEN Ok(p.off, <<>>)
                 ELSE IF p.off + length > Len(d) THEN Raise(p.off, "ValueError")
                 ELSE LET s == Slice(d, p.off, p.off + length)
                      IN  IF ValidUtf8(s) THEN Ok(p.off + length, s)
                          ELSE Raise(p.off, "UnicodeDecodeError")

\* ReadElems that returns the elements it has when the next one is cut short.
RECURSIVE ReadElems_partial(_, _, _, _, _)
ReadElems_partial(d, off, n, w, acc) ==
    IF n = 0 THEN Ok(off, acc)
    ELSE LET r == read_bytes(d, off, w)
         IN  IF r.ok THEN ReadElems_partial(d, r.off, n - 1, w, Append(acc, r.val))
             ELSE Ok(off, acc)

\* [read_bytes(w) for _ in range(n)], the elements read so far in acc.
RECURSIVE ReadElems(_, _, _, _, _)
ReadElems(d, off, n, w, acc) ==
    IF n = 0 THEN Ok(off, acc)
    ELSE LET r == read_bytes(d, off, w)
         IN  IF r.ok THEN ReadElems(d, r.off, n - 1, w, Append(acc, r.val))
             ELSE r

read_pubkey_raw_vec(d, off) ==
    LET p == read_u32(d, off)
    IN  IF p.ok THEN ReadElems(d, p.off, AsCount(p.val), 32, <<>>) ELSE p

read_network_v4_vec(d, off) ==
    LET p == read_u32(d, off)
    IN  IF p.ok THEN ReadElems(d, p.off, AsCount(p.val), 5, <<>>) ELSE p

---------------------------------------------------------------------------
(* The reader as a state machine: a buffer is chosen at construction and   *)
(* any method may be called in any order; a call that raises leaves the    *)
(* reader usable, with whatever offset the method had reached.             *)

\* Byte cycles the buffers are cut from: zeros; a string "AB" behind its
\* length prefix 2; a one-byte body (0xC8) that is not UTF-8 behind its
\* prefix 1; the three-byte string U+20AC behind its prefix 3.
Bases ==
    { <<0>>,
      <<2, 0, 0, 0, 65, 66>>,
      <<1, 0, 0, 0, 200>>,
      <<3, 0, 0, 0, 226, 130, 172>> }

\* The first n bytes of the cycle base repeated.
Pattern(base, n) == [i \in 1..n |-> base[((i - 1) % Len(base)) + 1]]

Buffers == { Pattern(base, n) : base \in Bases, n \in 0..MaxLen }

FixedOps ==
    { "read_u8", "read_bool", "read_u16", "read_u32", "read_u64", "read_u128",
      "read_f64", "read_pubkey_raw", "read_ipv4", "read_network_v4" }

StrictOps ==
    FixedOps \cup { "read_string", "read_pubkey_raw_vec", "read_network_v4_vec" }

\* sizeof(T) of a fixed-width read.
Width(op) ==
    CASE op = "read_u8" -> 1
      [] op = "read_bool" -> 1
      [] op = "read_u16" -> 2
      [] op = "read_u32" -> 4
      [] op = "read_u64" -> 8
      [] op = "read_u128" -> 16
      [] op = "read_f64" -> 8
      [] op = "read_pubkey_raw" -> 32
      [] op = "read_ipv4" -> 4
      [] op = "read_network_v4" -> 5

\* r.<op>() on an IncrementalReader.
StrictCall(op, d, off) ==
    CASE op = "read_u8" -> read_u8(d, off)
      [] op = "read_bool" -> read_bool(d, off)
      [] op = "read_u16" -> read_u16(d, off)
      [] op = "read_u32" -> read_u32(d, off)
      [] op = "read_u64" -> read_u64(d, off)
      [] op = "read_u128" -> read_u128(d, off)
      [] op = "read_f64" -> read_f64(d, off)
      [] op = "read_pubkey_raw" -> read_pubkey_raw(d, off)
      [] op = "read_ipv4" -> read_ipv4(d, off)
      [] op = "read_network_v4" -> read_network_v4(d, off)
      [] op = "read_string" -> read_string(d, off)
      [] op = "read_pubkey_raw_vec" -> read_pubkey_raw_vec(d, off)
      [] op = "read_network_v4_vec" -> read_network_v4_vec(d, off)

\* The bytes try_<op> wants to remain before it reads.
TryGuard(op) ==
    CASE op = "read_u8" -> 1
      [] op = "read_bool" -> 1
      [] op = "read_u16" -> 2
      [] op = "read_u32" -> 4
      [] op = "read_u64" -> 8
      [] op = "read_u128" -> 16
      [] op = "read_f64" -> 8
      [] op = "read_pubkey_raw" -> 32
      [] op = "read_ipv4" -> 4
      [] op = "read_network_v4" -> 5
      [] op = "read_string" -> 4
      [] op = "read_pubkey_raw_vec" -> 4
      [] op = "read_network_v4_vec" -> 4

\* try_<op> that reads as soon as one byte remains.
TryCall_guard1(op, d, off, default) ==
    IF remaining(d, off) < 1 THEN Ok(off, default) ELSE StrictCall(op, d, off)

\* r.try_<op>(default) on an IncrementalReader: the default when fewer bytes
\* remain than it wants, else the strict read.
TryCall(op, d, off, default) ==
    IF remaining(d, off) < TryGuard(op) THEN Ok(off, default)
    ELSE StrictCall(op, d, off)

\* ZeroOf with the default of read_ipv4 passed by read_network_v4 too.
ZeroOf_ipv4_for_network(op) ==
    CASE op = "read_bool" -> FALSE
      [] op \in {"read_string", "read_pubkey_raw_vec", "read_network_v4_vec"} -> <<>>
      [] op = "read_network_v4" -> Zeros(4)
      [] OTHER -> Zeros(Width(op))

\* The default DefensiveReader.<op> passes to try_<op>.
ZeroOf(op) ==
    CASE op = "read_bool" -> FALSE
      [] op \in {"read_string", "read_pubkey_raw_vec", "read_network_v4_vec"} -> <<>>
      [] OTHER -> Zeros(Width(op))

\* DefensiveReader.<op> that calls the strict read.
DefensiveCall_strict(op, d, off) == StrictCall(op, d, off)

\* DefensiveReader.<op> that returns the zero value when the read raises.
DefensiveCall_catching(op, d, off) ==
    LET r == TryCall(op, d, off, ZeroOf(op))
    IN  IF r.ok THEN r ELSE Ok(off, ZeroOf(op))

\* r.<op>() on a DefensiveReader.
DefensiveCall(op, d, off) == TryCall(op, d, off, ZeroOf(op))

\* DefensiveReader.read_bytes(n)
DefensiveReader_read_bytes(d, off, n) ==
    IF remaining(d, off) < n THEN Ok(off, Zeros(n)) ELSE read_bytes(d, off, n)

\* The defaults a caller passes to try_<op>: a value of the type that is not
\* its zero value (the zero value is what DefensiveReader passes).
Defaults(op) ==
    CASE op = "read_bool" -> { TRUE }
      [] op \in FixedOps \ {"read_bool"} -> { Rep(Width(op), 55) }
      [] op = "read_string" -> { <<110, 111>> }
      [] op = "read_pubkey_raw_vec" -> { <<Rep(32, 55)>> }
      [] op = "read_network_v4_vec" -> { <<Rep(5, 55)>> }

\* IncrementalReader(data)
InitReader ==
    /\ data \in Buffers
    /\ offset = 0
    /\ prevOffset = 0
    /\ lastOp = "init"
    /\ lastArg = <<>>
    /\ lastRes = Ok(0, <<>>)
    /\ Idle("reader")

Called(op, arg, r) ==
    /\ prevOffset' = offset
    /\ offset' = r.off
    /\ lastOp' = op
    /\ lastArg' = arg
    /\ lastRes' = r
    /\ UNCHANGED <<data, decodeVars, batchVars, fixedVars, interfaceVars,
                   telemetryVars, retryVars>>

StrictRead == \E op \in StrictOps : Called(op, <<>>, StrictCall(op, data, offset))

ReadBytes == \E n \in 0..MaxN : Called("read_bytes", n, read_bytes(data, offset, n))

TryRead ==
    \E op \in StrictOps : \E default \in Defaults(op) :
        Called("try_" \o op, default, TryCall(op, data, offset, default))

DefensiveRead ==
    \E op \in StrictOps : Called("defensive_" \o op, <<>>, DefensiveCall(op, data, offset))

DefensiveReadBytes ==
    \E n \in 0..MaxN :
        Called("defensive_read_bytes", n, DefensiveReader_read_bytes(data, offset, n))

NextReader ==
    \/ StrictRead
    \/ ReadBytes
    \/ TryRead
    \/ DefensiveRead
    \/ DefensiveReadBytes

SpecReader == InitReader /\ [][NextReader]_vars

---------------------------------------------------------------------------
(* Claims about the reader, checked under SpecReader.                      *)

\* C1: after any sequence of strict and try reads, failing or not,
\* 0 <= offset <= len(buffer), offset + remaining = len(buffer), and no call
\* leaves the offset lower than it found it (read_bytes is called with a byte
\* count n >= 0).
C1_OffsetInvariant ==
    /\ 0 <= offset
    /\ offset <= Len(data)
    /\ offset + remaining(data, offset) = Len(data)
    /\ prevOffset <= offset

\* A read has failed on a reader that earlier reads had advanced.
C1_Witness == lastOp = "read_u64" /\ ~lastRes.ok /\ offset > 0

\* C2: a strict fixed-width read fails exactly when offset + width exceeds
\* len(buffer), and a failing one leaves the offset where it was.
C2_StrictFixedFailure ==
    LET fixed == lastOp \in FixedOps \cup {"read_bytes"}
        w == IF lastOp = "read_bytes" THEN lastArg ELSE Width(lastOp)
    IN  fixed =>
            /\ ~lastRes.ok <=> prevOffset + w > Len(data)
            /\ ~lastRes.ok => offset = prevOffset
            /\ lastRes.ok => offset = prevOffset + w

\* A 32-byte read failed at a position where a 4-byte read still fits.
C2_Witness ==
    /\ lastOp = "read_pubkey_raw"
    /\ ~lastRes.ok
    /\ prevOffset > 0
    /\ read_u32(data, offset).ok

\* C3: a strict read_string that fails because its length prefix, fully
\* present, claims more body bytes than remain leaves the offset where it was
\* before the call.
C3_StringFailureKeepsOffset ==
    (/\ lastOp = "read_string"
     /\ ~lastRes.ok
     /\ lastRes.err = "ValueError"
     /\ prevOffset + 4 <= Len(data))
        => offset = prevOffset

\* C4: try_read_T(default) returns the default and leaves the offset alone
\* when fewer than sizeof(T) bytes remain, and otherwise returns what the
\* strict read_T returns at that position and leaves the offset it leaves.
C4_TryReadRefinesStrict ==
    \A op \in FixedOps :
        lastOp = "try_" \o op =>
            IF Len(data) - prevOffset < Width(op)
            THEN /\ lastRes.ok
                 /\ lastRes.val = lastArg
                 /\ offset = prevOffset
            ELSE /\ lastRes = StrictCall(op, data, prevOffset)
                 /\ lastRes.ok
                 /\ offset = prevOffset + Width(op)

\* try_read_u32 returned the default with one to three bytes left over.
C4_Witness ==
    /\ lastOp = "try_read_u32"
    /\ lastRes.val = lastArg
    /\ offset = prevOffset
    /\ offset < Len(data)

\* C18: a strict fixed-width read that succeeds returns the bytes at the
\* offset, as many as its width and the least significant first (read_bool:
\* whether the byte is not 0), and leaves the offset greater by exactly its
\* width; so a run of such reads from offset 0 leaves the sum of the widths.
C18_StrictReadAdvancesByWidth ==
    \A op \in FixedOps :
        (lastOp = op /\ lastRes.ok) =>
            /\ prevOffset + Width(op) <= Len(data)
            /\ offset = prevOffset + Width(op)
            /\ lastRes.val = IF op = "read_bool" THEN data[prevOffset + 1] # 0
                             ELSE SubSeq(data, prevOffset + 1, prevOffset + Width(op))

\* read_u64 succeeded at offset 7, where read_u8, read_u16 and read_u32 from
\* offset 0 lead, and left offset 15, on bytes that are not all equal.
C18_Witness ==
    /\ lastOp = "read_u64"
    /\ lastRes.ok
    /\ prevOffset = 7
    /\ offset = 15
    /\ lastRes.val[1] # lastRes.val[2]

C20_VectorAllOrNothing ==
    \A op \in {"read_pubkey_raw_vec", "read_network_v4_vec"} :
        lastOp = op =>
            LET rem == Len(data) - prevOffset
                w == IF op = "read_pubkey_raw_vec" THEN 32 ELSE 5
                N == AsCount(SubSeq(data, prevOffset + 1, prevOffset + 4))
            IN  /\ lastRes.ok <=> (rem >= 4 /\ N * w <= rem - 4)
                /\ lastRes.ok =>
                      /\ offset = prevOffset + 4 + N * w
                      /\ lastRes.val =
                            [k \in 1..N |->
                                SubSeq(data, prevOffset + 4 + (k - 1) * w + 1,
                                       prevOffset + 4 + k * w)]
                /\ ~lastRes.ok => lastRes.val = <<>>

\* read_network_v4_vec returned two elements.
C20_Witness ==
    /\ lastOp = "read_network_v4_vec"
    /\ lastRes.ok
    /\ Len(lastRes.val) = 2
    /\ offset = prevOffset + 14

\* C21: a strict read_string succeeds exactly when the 4-byte length L and
\* L body bytes are there and the body is UTF-8; it then returns the body
\* and leaves the offset greater by 4 + L.  For L = 0 that is the empty
\* string and 4.
C21_StringReadExact ==
    lastOp = "read_string" =>
        LET rem == Len(data) - prevOffset
            L == AsCount(SubSeq(data, prevOffset + 1, prevOffset + 4))
            body == SubSeq(data, prevOffset + 5, prevOffset + 4 + L)
        IN  /\ lastRes.ok <=> (rem >= 4 /\ L <= rem - 4 /\ ValidUtf8(body))
            /\ lastRes.ok => (offset = prevOffset + 4 + L /\ lastRes.val = body)
            /\ (rem >= 4 /\ L = 0) =>
                  (lastRes.ok /\ lastRes.val = <<>> /\ offset = prevOffset + 4)

\* read_string returned a string of three bytes that are one character.
C21_Witness ==
    /\ lastOp = "read_string"
    /\ lastRes.ok
    /\ lastRes.val = <<226, 130, 172>>
    /\ offset = prevOffset + 7

\* C22: each read of a DefensiveReader returns what try_<read> of the
\* IncrementalReader returns for the zero value of the type as default (0,
\* False, "", 32, 4 or 5 zero bytes, the empty list) and leaves the offset it
\* leaves; on an empty buffer every read, read_bytes(n) included, returns the
\* zero value and leaves offset 0.
C22_DefensiveIsTryWithZero ==
    LET zero(op) ==
            CASE op = "read_bool" -> FALSE
              [] op = "read_u8" -> <<0>>
              [] op = "read_u16" -> <<0, 0>>
              [] op \in {"read_u32", "read_ipv4"} -> <<0, 0, 0, 0>>
              [] op = "read_network_v4" -> <<0, 0, 0, 0, 0>>
              [] op \in {"read_u64", "read_f64"} -> [i \in 1..8 |-> 0]
              [] op = "read_u128" -> [i \in 1..16 |-> 0]
              [] op = "read_pubkey_raw" -> [i \in 1..32 |-> 0]
              [] op \in {"read_string", "read_pubkey_raw_vec",
                         "read_network_v4_vec"} -> <<>>
    IN  /\ \A op \in StrictOps :
              lastOp = "defensive_" \o op =>
                  /\ lastRes = TryCall(op, data, prevOffset, zero(op))
                  /\ offset = lastRes.off
                  /\ data = <<>> =>
                        (lastRes.ok /\ lastRes.val = zero(op) /\ offset = 0)
        /\ (lastOp = "defensive_read_bytes" /\ data = <<>>) =>
              (lastRes.ok /\ lastRes.val = [i \in 1..lastArg |-> 0] /\ offset = 0)

\* DefensiveReader.read_network_v4 returned five zero bytes with one to four
\* bytes left over.
C22_Witness ==
    /\ lastOp = "defensive_read_network_v4"
    /\ lastRes.ok
    /\ lastRes.val = <<0, 0, 0, 0, 0>>
    /\ offset = prevOffset
    /\ offset < Len(data)
    /\ data[Len(data)] # 0

\* C27: when a fixed-width read of a DefensiveReader has returned its zero
\* default because fewer bytes remained than its width, the next fixed-width
\* read of the DefensiveReader leaves the offset where it is and returns its
\* zero default too, however narrow it is; so the offset never changes again.
C27_DefaultIsSticky ==
    [][\A op, next \in FixedOps :
          (/\ lastOp = "defensive_" \o op
           /\ lastRes.ok
           /\ Len(data) - prevOffset < Width(op)
           /\ lastOp' = "defensive_" \o next) =>
              /\ offset' = offset
              /\ lastRes'.ok
              /\ lastRes'.val = IF next = "read_bool" THEN FALSE
                                ELSE [i \in 1..Width(next) |-> 0]]_vars

---------------------------------------------------------------------------
(* Tagged-variant record decoders (serviceability/state.py).  A decoder is *)
(* its sequence of field reads; Decode runs them in order on one reader.   *)

\* The members of each IntEnum.
EnumMembers(e) ==
    CASE e = "LocationStatus" -> {0, 1, 2}
      [] e = "ExchangeStatus" -> {0, 1, 2}
      [] e = "DeviceDeviceType" -> {0, 1, 2}
      [] e = "DeviceStatus" -> 0..6
      [] e = "DeviceHealth" -> 0..4
      [] e = "DeviceDesiredStatus" -> {0, 1, 6}
      [] e = "InterfaceStatus" -> 0..6
      [] e = "InterfaceType" -> {0, 1, 2}
      [] e = "LoopbackType" -> 0..4
      [] e = "InterfaceCYOA" -> 0..5
      [] e = "InterfaceDIA" -> {0, 1}
      [] e = "RoutingMode" -> {0, 1}
      [] e = "LinkLinkType" -> {1, 127}
      [] e = "LinkStatus" -> {0, 1, 3, 4, 5, 6, 7, 8}
      [] e = "LinkHealth" -> 0..3
      [] e = "LinkDesiredStatus" -> {0, 1, 6, 7}
      [] e = "ContributorStatus" -> 0..3
      [] e = "UserUserType" -> 0..3
      [] e = "CyoaType" -> 0..5
      [] e = "UserStatus" -> {0, 1, 3, 4, 5, 6, 7, 8}
      [] e = "MulticastGroupStatus" -> 0..4
      [] e = "AccessPassTypeTag" -> 0..5
      [] e = "AccessPassStatus" -> 0..3

\* The first (lowest-ordinal) member of an IntEnum.
FirstMember(e) == CHOOSE m \in EnumMembers(e) : \A x \in EnumMembers(e) : m <= x

LastMember(e) == CHOOSE m \in EnumMembers(e) : \A x \in EnumMembers(e) : m >= x

\* AccountTypeEnum
AccountTypeEnum(rec) ==
    CASE rec = "GlobalState" -> 1
      [] rec = "GlobalConfig" -> 2
      [] rec = "Location" -> 3
      [] rec = "Exchange" -> 4
      [] rec = "Device" -> 5
      [] rec = "Link" -> 6
      [] rec = "User" -> 7
      [] rec = "MulticastGroup" -> 8
      [] rec = "ProgramConfig" -> 9
      [] rec = "Contributor" -> 10
      [] rec = "AccessPass" -> 11
      [] rec = "Tenant" -> 13

RecordTypes ==
    { "GlobalState", "GlobalConfig", "Location", "Exchange", "Device", "Link",
      "User", "MulticastGroup", "ProgramConfig", "Contributor", "AccessPass",
      "Tenant" }

\* One field read of a decoder: the attribute it sets, how it is read, and the
\* IntEnum it is converted to, if any.
F(name, kind) == [name |-> name, kind |-> kind, enum |-> ""]

E(name, enum) == [name |-> name, kind |-> "enum", enum |-> enum]

CURRENT_INTERFACE_VERSION == 2

\* The field reads of <Record>.from_bytes, in order; those of
\* Interface.from_reader after the version byte, for version 0 ("InterfaceV1")
\* and version 1 ("InterfaceV2").  An AccessPass reads the kind tag, then the
\* fields its value selects (one key for 1..4, two strings for 5), then the
\* common fields.
Fields(rec) ==
    CASE rec = "GlobalState" ->
        << F("account_type", "u8"), F("bump_seed", "u8"), F("account_index", "u128"),
         F("foundation_allowlist", "pkvec"), F("_device_allowlist", "pkvec"),
         F("_user_allowlist", "pkvec"), F("activator_authority_pk", "pubkey"),
         F("sentinel_authority_pk", "pubkey"),
         F("contributor_airdrop_lamports", "u64"), F("user_airdrop_lamports", "u64"),
         F("health_oracle_pk", "pubkey"), F("qa_allowlist", "pkvec"),
         F("feature_flags", "u128"), F("reservation_authority_pk", "pubkey") >>
      [] rec = "GlobalConfig" ->
        << F("account_type", "u8"), F("owner", "pubkey"), F("bump_seed", "u8"),
         F("local_asn", "u32"), F("remote_asn", "u32"),
         F("device_tunnel_block", "netv4"), F("user_tunnel_block", "netv4"),
         F("multicast_group_block", "netv4"), F("next_bgp_community", "u16"),
         F("multicast_publisher_block", "netv4") >>
      [] rec = "Location" ->
        << F("account_type", "u8"), F("owner", "pubkey"), F("index", "u128"),
         F("bump_seed", "u8"), F("lat", "f64"), F("lng", "f64"), F("loc_id", "u32"),
         E("status", "LocationStatus"), F("code", "string"), F("name", "string"),
         F("country", "string"), F("reference_count", "u32") >>
      [] rec = "Exchange" ->
        << F("account_type", "u8"), F("owner", "pubkey"), F("index", "u128"),
         F("bump_seed", "u8"), F("lat", "f64"), F("lng", "f64"),
         F("bgp_community", "u16"), F("_reserved", "u16"),
         E("status", "ExchangeStatus"), F("code", "string"), F("name", "string"),
         F("reference_count", "u32"), F("device1_pk", "pubkey"),
         F("device2_pk", "pubkey") >>
      [] rec = "Device" ->
        << F("account_type", "u8"), F("owner", "pubkey"), F("index", "u128"),
         F("bump_seed", "u8"), F("location_pub_key", "pubkey"),
         F("exchange_pub_key", "pubkey"), E("device_type", "DeviceDeviceType"),
         F("public_ip", "ipv4"), E("status", "DeviceStatus"), F("code", "string"),
         F("dz_prefixes", "netvec"), F("metrics_publisher_pub_key", "pubkey"),
         F("contributor_pub_key", "pubkey"), F("mgmt_vrf", "string"),
         F("interfaces", "ifaces"), F("reference_count", "u32"),
         F("users_count", "u16"), F("max_users", "u16"),
         E("device_health", "DeviceHealth"),
         E("device_desired_status", "DeviceDesiredStatus"),
         F("unicast_users_count", "u16"), F("multicast_users_count", "u16"),
         F("max_unicast_users", "u16"), F("max_multicast_users", "u16"),
         F("reserved_seats", "u16") >>
      [] rec = "Link" ->
        << F("account_type", "u8"), F("owner", "pubkey"), F("index", "u128"),
         F("bump_seed", "u8"), F("side_a_pub_key", "pubkey"),
         F("side_z_pub_key", "pubkey"), E("link_type", "LinkLinkType"),
         F("bandwidth", "u64"), F("mtu", "u32"), F("delay_ns", "u64"),
         F("jitter_ns", "u64"), F("tunnel_id", "u16"), F("tunnel_net", "netv4"),
         E("status", "LinkStatus"), F("code", "string"),
         F("contributor_pub_key", "pubkey"), F("side_a_iface_name", "string"),
         F("side_z_iface_name", "string"), F("delay_override_ns", "u64"),
         E("link_health", "LinkHealth"),
         E("link_desired_status", "LinkDesiredStatus") >>
      [] rec = "User" ->
        << F("account_type", "u8"), F("owner", "pubkey"), F("index", "u128"),
         F("bump_seed", "u8"), E("user_type", "UserUserType"),
         F("tenant_pub_key", "pubkey"), F("device_pub_key", "pubkey"),
         E("cyoa_type", "CyoaType"), F("client_ip", "ipv4"), F("dz_ip", "ipv4"),
         F("tunnel_id", "u16"), F("tunnel_net", "netv4"), E("status", "UserStatus"),
         F("publishers", "pkvec"), F("subscribers", "pkvec"),
         F("validator_pub_key", "pubkey") >>
      [] rec = "MulticastGroup" ->
        << F("account_type", "u8"), F("owner", "pubkey"), F("index", "u128"),
         F("bump_seed", "u8"), F("tenant_pub_key", "pubkey"),
         F("multicast_ip", "ipv4"), F("max_bandwidth", "u64"),
         E("status", "MulticastGroupStatus"), F("code", "string"),
         F("publisher_count", "u32"), F("subscriber_count", "u32") >>
      [] rec = "ProgramConfig" ->
        << F("account_type", "u8"), F("bump_seed", "u8"), F("version_major", "u32"),
         F("version_minor", "u32"), F("version_patch", "u32"),
         F("min_compat_major", "u32"), F("min_compat_minor", "u32"),
         F("min_compat_patch", "u32") >>
      [] rec = "Contributor" ->
        << F("account_type", "u8"), F("owner", "pubkey"), F("index", "u128"),
         F("bump_seed", "u8"), E("status", "ContributorStatus"), F("code", "string"),
         F("reference_count", "u32"), F("ops_manager_pk", "pubkey") >>
      [] rec = "AccessPass" ->
        << F("account_type", "u8"), F("owner", "pubkey"), F("bump_seed", "u8"),
         [name |-> "access_pass_type_tag", kind |-> "aptag", enum |-> "AccessPassTypeTag"],
         F("associated_pubkey", "ap_pubkey"), F("others_type_name", "ap_string"),
         F("others_key", "ap_string"), F("client_ip", "ipv4"),
         F("user_payer", "pubkey"), F("last_access_epoch", "u64"),
         F("connection_count", "u16"), E("status", "AccessPassStatus"),
         F("mgroup_pub_allowlist", "pkvec"), F("mgroup_sub_allowlist", "pkvec"),
         F("flags", "u8") >>
      [] rec = "Tenant" ->
        << F("account_type", "u8"), F("owner", "pubkey"), F("bump_seed", "u8"),
         F("code", "string"), F("vrf_id", "u16"), F("reference_count", "u32"),
         F("administrators", "pkvec"), F("payment_status", "u8"),
         F("token_account", "pubkey"), F("metro_routing", "u8nz"),
         F("route_liveness", "u8nz"), F("billing_discriminant", "u8"),
         F("billing_rate", "u64"), F("billing_last_deduction_dz_epoch", "u64") >>
      [] rec = "InterfaceV1" ->
        << E("status", "InterfaceStatus"), F("name", "string"),
         E("interface_type", "InterfaceType"), E("loopback_type", "LoopbackType"),
         F("vlan_id", "u16"), F("ip_net", "netv4"), F("node_segment_idx", "u16"),
         F("user_tunnel_endpoint", "bool") >>
      [] rec = "InterfaceV2" ->
        << E("status", "InterfaceStatus"), F("name", "string"),
         E("interface_type", "InterfaceType"), E("interface_cyoa", "InterfaceCYOA"),
         E("interface_dia", "InterfaceDIA"), E("loopback_type", "LoopbackType"),
         F("bandwidth", "u64"), F("cir", "u64"), F("mtu", "u16"),
         E("routing_mode", "RoutingMode"), F("vlan_id", "u16"), F("ip_net", "netv4"),
         F("node_segment_idx", "u16"), F("user_tunnel_endpoint", "bool") >>

\* The reader method behind a plain field kind.
OpOf(kind) ==
    CASE kind = "u8" -> "read_u8"
      [] kind = "bool" -> "read_bool"
      [] kind = "u16" -> "read_u16"
      [] kind = "u32" -> "read_u32"
      [] kind = "u64" -> "read_u64"
      [] kind = "u128" -> "read_u128"
      [] kind = "f64" -> "read_f64"
      [] kind = "pubkey" -> "read_pubkey_raw"
      [] kind = "ipv4" -> "read_ipv4"
      [] kind = "netv4" -> "read_network_v4"
      [] kind = "string" -> "read_string"
      [] kind = "pkvec" -> "read_pubkey_raw_vec"
      [] kind = "netvec" -> "read_network_v4_vec"

\* Enum(v): the member with value v; ValueError when there is none.
EnumOf(e, r) ==
    IF ~r.ok THEN r
    ELSE IF r.val[1] \in EnumMembers(e) THEN r
    ELSE Raise(r.off, "ValueError")

\* EnumOrPrepaid without the except clause.
EnumOrPrepaid_raising(e, r) ==
    IF ~r.ok THEN r
    ELSE IF r.val[1] \in EnumMembers(e) THEN r
    ELSE Raise(r.off, "ValueError")

\* try: AccessPassTypeTag(tag) except ValueError: PREPAID
EnumOrPrepaid(e, r) ==
    IF ~r.ok THEN r
    ELSE IF r.val[1] \in EnumMembers(e) THEN r
    ELSE Ok(r.off, <<0>>)

\* The state of a decode in progress: whether it still runs or has raised,
\* the reader's offset, the values read so far with the offset after each,
\* and the raw AccessPass kind tag once read.
DecodeStart(off) ==
    [ok |-> TRUE, err |-> "", off |-> off, fields |-> <<>>, ends |-> <<>>, tag |-> 0]

Stored(st, r, tag) ==
    IF r.ok
    THEN [ok |-> TRUE, err |-> "", off |-> r.off,
          fields |-> Append(st.fields, r.val), ends |-> Append(st.ends, r.off),
          tag |-> tag]
    ELSE [ok |-> FALSE, err |-> r.err, off |-> r.off,
          fields |-> st.fields, ends |-> st.ends, tag |-> tag]

\* One field read and the assignment of its value.  An enum field is
\* Enum(r.read_u8()); the AccessPass kind tag falls back to PREPAID and
\* selects the reads after it; a Tenant flag is r.read_u8() != 0.
ReadField(f, d, st) ==
    LET op == CASE f.kind \in {"enum", "aptag", "u8nz"} -> "read_u8"
                [] f.kind = "ap_pubkey" ->
                      IF st.tag \in {1, 2, 3, 4} THEN "read_pubkey_raw" ELSE ""
                [] f.kind = "ap_string" -> IF st.tag = 5 THEN "read_string" ELSE ""
                [] OTHER -> OpOf(f.kind)
        r == IF op = "" THEN Ok(st.off, <<>>) ELSE DefensiveCall(op, d, st.off)
    IN  CASE f.kind = "enum" -> Stored(st, EnumOf(f.enum, r), st.tag)
          [] f.kind = "aptag" ->
                Stored(st, EnumOrPrepaid(f.enum, r), IF r.ok THEN r.val[1] ELSE st.tag)
          [] f.kind = "u8nz" ->
                Stored(st, IF r.ok THEN Ok(r.off, r.val[1] # 0) ELSE r, st.tag)
          [] OTHER -> Stored(st, r, st.tag)

RECURSIVE DecodeFrom(_, _, _, _)

\* Interface.from_reader that reads the fields of version 1 for every
\* version but 0.
Interface_from_reader_else_v2(d, off) ==
    LET v == DefensiveCall("read_u8", d, off)
    IN  IF ~v.ok THEN v
        ELSE LET st == DecodeFrom(Fields(IF v.val[1] = 0 THEN "InterfaceV1"
                                         ELSE "InterfaceV2"),
                                  1, d, DecodeStart(v.off))
             IN  IF st.ok
                 THEN Ok(st.off, [version |-> v.val[1], fields |-> st.fields])
                 ELSE Raise(st.off, st.err)

\* Interface.from_reader(r): the version byte, then the fields of that
\* version; a version above CURRENT_INTERFACE_VERSION - 1 is an empty
\* Interface.
Interface_from_reader(d, off) ==
    LET v == DefensiveCall("read_u8", d, off)
    IN  IF ~v.ok THEN v
        ELSE IF v.val[1] > CURRENT_INTERFACE_VERSION - 1
        THEN Ok(v.off, [version |-> v.val[1], fields |-> <<>>])
        ELSE LET st == DecodeFrom(Fields(IF v.val[1] = 0 THEN "InterfaceV1"
                                         ELSE "InterfaceV2"),
                                  1, d, DecodeStart(v.off))
             IN  IF st.ok
                 THEN Ok(st.off, [version |-> v.val[1], fields |-> st.fields])
                 ELSE Raise(st.off, st.err)

\* for _ in range(n): interfaces.append(Interface.from_reader(r))
RECURSIVE ReadInterfaces(_, _, _, _)
ReadInterfaces(d, off, n, acc) ==
    IF n = 0 THEN Ok(off, acc)
    ELSE LET r == Interface_from_reader(d, off)
         IN  IF r.ok THEN ReadInterfaces(d, r.off, n - 1, Append(acc, r.val))
             ELSE r

\* iface_len = r.read_u32(), then that many interfaces.
ReadInterfaceVec(d, off) ==
    LET p == DefensiveCall("read_u32", d, off)
    IN  IF p.ok THEN ReadInterfaces(d, p.off, AsCount(p.val), <<>>) ELSE p

\* The field reads of a decoder from the i-th on; the first that raises ends
\* the decode.
DecodeFrom(schema, i, d, st) ==
    IF i > Len(schema) \/ ~st.ok THEN st
    ELSE DecodeFrom(schema, i + 1, d,
                    IF schema[i].kind = "ifaces"
                    THEN Stored(st, ReadInterfaceVec(d, st.off), st.tag)
                    ELSE ReadField(schema[i], d, st))

\* <Record>.from_bytes(data): r = DefensiveReader(data), then the field reads.
from_bytes(rec, d) == DecodeFrom(Fields(rec), 1, d, DecodeStart(0))

---------------------------------------------------------------------------
(* Decoding as a state machine: an account buffer is chosen, then decoded. *)
(* The buffers are valid accounts (every field encoded in declared order)  *)
(* cut at a byte position, or with one enum byte set outside its enum.     *)

\* The numeral of a count below 65536 as a u32.
U32(n) == <<n % 256, n \div 256, 0, 0>>

\* The bytes of one plain field of a valid account.
SampleBytes(f, rec, fill, tag) ==
    CASE f.name = "account_type" -> <<AccountTypeEnum(rec)>>
      [] f.kind \in {"u8", "u8nz"} /\ f.name # "account_type" -> <<fill>>
      [] f.kind = "bool" -> <<1>>
      [] f.kind = "u16" -> Rep(2, fill)
      [] f.kind = "u32" -> Rep(4, fill)
      [] f.kind = "u64" -> Rep(8, fill)
      [] f.kind = "u128" -> Rep(8, fill) \o Zeros(8)
      [] f.kind = "f64" -> Rep(8, fill)
      [] f.kind = "pubkey" -> Rep(32, fill)
      [] f.kind = "ipv4" -> Rep(4, fill)
      [] f.kind = "netv4" -> Rep(5, fill)
      [] f.kind = "string" -> U32(StrLen) \o Rep(StrLen, 65)
      [] f.kind = "pkvec" -> U32(VecLen) \o Rep(32 * VecLen, fill)
      [] f.kind = "netvec" -> U32(VecLen) \o Rep(5 * VecLen, fill)
      [] f.kind = "enum" ->
            <<IF fill \in EnumMembers(f.enum) THEN fill ELSE LastMember(f.enum)>>
      [] f.kind = "aptag" -> <<tag>>
      [] f.kind = "ap_pubkey" -> IF tag \in {1, 2, 3, 4} THEN Rep(32, fill) ELSE <<>>
      [] f.kind = "ap_string" ->
            IF tag = 5 THEN U32(StrLen) \o Rep(StrLen, 65) ELSE <<>>

\* A valid account of the record type, fields in the decoder's order; the
\* interfaces of a device are version 0 and version 1 in turn.
RECURSIVE Encode(_, _, _, _, _)
RECURSIVE EncodeInterfaces(_, _, _)
EncodeInterfaces(k, n, fill) ==
    IF k > n THEN <<>>
    ELSE <<(k - 1) % 2>>
            \o Encode(Fields(IF (k - 1) % 2 = 0 THEN "InterfaceV1" ELSE "InterfaceV2"),
                      1, "Interface", fill, 0)
            \o EncodeInterfaces(k + 1, n, fill)

Encode(schema, i, rec, fill, tag) ==
    IF i > Len(schema) THEN <<>>
    ELSE (IF schema[i].kind = "ifaces"
          THEN U32(MaxIfaces) \o EncodeInterfaces(1, MaxIfaces, fill)
          ELSE SampleBytes(schema[i], rec, fill, tag))
            \o Encode(schema, i + 1, rec, fill, tag)

ValidAccount(rec, fill, tag) == Encode(Fields(rec), 1, rec, fill, tag)

\* The fields of a record that are converted to an IntEnum.
EnumFieldsOf(rec) ==
    { i \in 1..Len(Fields(rec)) : Fields(rec)[i].kind \in {"enum", "aptag"} }

\* An input is a valid account (of the record type rec, filled with fill, an
\* AccessPass of kind tag), with the byte at in the field bad set to badv if
\* bad is not 0, cut after its first cut bytes.  The inputs are the valid
\* accounts cut at every byte position, and the whole accounts with one enum
\* byte set one past the enum's last member or to 255.
DecodeInputs ==
    UNION { UNION { { [rec |-> rec, fill |-> fill, tag |-> tag, cut |-> cut,
                       bad |-> 0, at |-> 0, badv |-> 0] :
                        cut \in 0..Len(ValidAccount(rec, fill, tag)) } :
                    tag \in IF rec = "AccessPass" THEN 0..5 ELSE {0} } :
            rec \in RecordTypes, fill \in 1..MaxFill }
    \cup
    UNION { UNION { { [rec |-> rec, fill |-> fill, tag |-> 0,
                       cut |-> Len(ValidAccount(rec, fill, 0)),
                       bad |-> i, at |-> 1, badv |-> v] :
                        v \in {LastMember(Fields(rec)[i].enum) + 1, 255} } :
                    i \in EnumFieldsOf(rec) } :
            rec \in RecordTypes, fill \in 1..MaxFill }

\* The offset after each field of the valid account an input is made from.
FullEnds(in) == from_bytes(in.rec, ValidAccount(in.rec, in.fill, in.tag)).ends

FieldStart(in, i) == IF i = 1 THEN 0 ELSE FullEnds(in)[i - 1]

\* The bytes of an input.
InputData(in) ==
    LET full == ValidAccount(in.rec, in.fill, in.tag)
        poked == IF in.bad = 0 THEN full
                 ELSE [full EXCEPT ![FieldStart(in, in.bad) + in.at] =
                          in.badv]
    IN  SubSeq(poked, 1, in.cut)

\* No decode has run yet.
Pending ==
    [ok |-> TRUE, err |-> "pending", off |-> 0, fields |-> <<>>, ends |-> <<>>,
     tag |-> 0]

InitDecode ==
    /\ din \in DecodeInputs
    /\ ddata = InputData(din)
    /\ dout = Pending
    /\ Idle("decode")

\* <Record>.from_bytes(data)
DecodeRecord ==
    /\ dout = Pending
    /\ dout' = from_bytes(din.rec, ddata)
    /\ UNCHANGED <<din, ddata, readerVars, batchVars, fixedVars, interfaceVars,
                   telemetryVars, retryVars>>

NextDecode == DecodeRecord

SpecDecode == InitDecode /\ [][NextDecode]_vars

---------------------------------------------------------------------------
(* Claims about the record decoders, checked under SpecDecode.             *)

\* C5: decoding a valid account cut at a byte position outside every string
\* and vector body (not at or after the end of a length prefix and before the
\* body's last byte) does not raise, and every field whose bytes are not all
\* within the cut decodes to the zero value of its type (an AccessPass key
\* that is not read is None).
C5_TruncatedDecodesToZero ==
    LET fs == Fields(din.rec)
        var == {"string", "pkvec", "netvec", "ifaces", "ap_string"}
        insideBody ==
            \E i \in 1..Len(fs) :
                /\ fs[i].kind \in var
                /\ FieldStart(din, i) + 4 <= din.cut
                /\ din.cut < FullEnds(din)[i]
        zero(f) ==
            CASE f.kind = "bool" \/ f.kind = "u8nz" -> {FALSE}
              [] f.kind \in var -> {<<>>}
              [] f.kind = "enum" -> {<<FirstMember(f.enum)>>}
              [] f.kind = "aptag" -> {<<0>>}
              [] f.kind = "ap_pubkey" -> {<<>>, Zeros(32)}
              [] OTHER -> {Zeros(Width(OpOf(f.kind)))}
    IN  (dout # Pending /\ din.bad = 0 /\ ~insideBody) =>
            /\ dout.ok
            /\ \A i \in 1..Len(fs) :
                  FullEnds(din)[i] > din.cut => dout.fields[i] \in zero(fs[i])

\* C6: an enum byte outside the enum's members does not raise; the field is
\* the enum's first member and the fields after it decode as they do in the
\* account without the bad byte.
C6_UnknownEnumFallsBack ==
    LET fs == Fields(din.rec)
        valid == from_bytes(din.rec, ValidAccount(din.rec, din.fill, din.tag))
    IN  (dout # Pending /\ din.bad # 0) =>
            /\ dout.ok
            /\ dout.fields[din.bad] = <<FirstMember(fs[din.bad].enum)>>
            /\ \A j \in (din.bad + 1)..Len(fs) : dout.fields[j] = valid.fields[j]

\* C15: decoding a whole AccessPass account reads the kind tag at offset 34;
\* it then consumes one 32-byte key for a tag in 1..4, two length-prefixed
\* strings for tag 5 and nothing for any other tag, a tag of 6 or more
\* decoding as PREPAID without raising; then it reads client_ip, user_payer,
\* last_access_epoch, connection_count, status, the two allowlists and flags,
\* in this order, each from the bytes right after the one before.
C15_AccessPassVariantDispatch ==
    LET tag == ddata[35]
        e == dout.ends
        f == dout.fields
        bytes(i) == SubSeq(ddata, e[i - 1] + 1, e[i])
        keys(i) == [k \in 1..VecLen |->
                        SubSeq(ddata, e[i - 1] + 4 + 32 * (k - 1) + 1,
                               e[i - 1] + 4 + 32 * k)]
    IN  (/\ dout # Pending
         /\ din.rec = "AccessPass"
         /\ din.cut = Len(ValidAccount(din.rec, din.fill, din.tag))
         /\ din.bad \in {0, 4}) =>
            /\ dout.ok
            /\ Len(e) = 15
            /\ e[3] = 34 /\ e[4] = 35
            /\ f[4] = <<IF tag \in 0..5 THEN tag ELSE 0>>
            /\ e[7] - e[4] = (CASE tag \in 1..4 -> 32
                                [] tag = 5 -> 2 * (4 + StrLen)
                                [] OTHER -> 0)
            /\ tag \in 1..4 => (e[5] = 67 /\ f[5] = bytes(5) /\ f[6] = <<>>)
            /\ tag = 5 =>
                  /\ f[5] = <<>>
                  /\ e[6] = e[5] + 4 + StrLen /\ f[6] = SubSeq(ddata, 40, e[6])
                  /\ e[7] = e[6] + 4 + StrLen /\ f[7] = SubSeq(ddata, e[6] + 5, e[7])
            /\ tag \notin 1..5 => (f[5] = <<>> /\ f[6] = <<>> /\ f[7] = <<>>)
            /\ e[8] = e[7] + 4 /\ f[8] = bytes(8)
            /\ e[9] = e[8] + 32 /\ f[9] = bytes(9)
            /\ e[10] = e[9] + 8 /\ f[10] = bytes(10)
            /\ e[11] = e[10] + 2 /\ f[11] = bytes(11)
            /\ e[12] = e[11] + 1 /\ f[12] = bytes(12)
            /\ e[13] = e[12] + 4 + 32 * VecLen /\ f[13] = keys(13)
            /\ e[14] = e[13] + 4 + 32 * VecLen /\ f[14] = keys(14)
            /\ e[15] = e[14] + 1 /\ f[15] = bytes(15)
            /\ e[15] = Len(ddata)

\* A whole AccessPass whose kind tag is 6 or more decoded to PREPAID.
C15_Witness ==
    /\ dout # Pending
    /\ dout.ok
    /\ din.rec = "AccessPass"
    /\ Len(dout.ends) = 15
    /\ Len(ddata) >= 35
    /\ ddata[35] >= 6
    /\ dout.fields[4] = <<0>>

\* C23: when the buffer is exactly the bytes of the first k fields of a record
\* and every field after them is read by one fixed-width read of the
\* DefensiveReader, the decode does not fail, its first k fields are what a
\* decoder of those k fields alone returns, every later field is the zero
\* value of its type, and the offset stays at the end of the buffer.
C23_TrailingFieldsDefault ==
    LET fs == Fields(din.rec)
        zero(kind) ==
            CASE kind \in {"bool", "u8nz"} -> FALSE
              [] kind = "u8" -> <<0>>
              [] kind = "u16" -> <<0, 0>>
              [] kind \in {"u32", "ipv4"} -> <<0, 0, 0, 0>>
              [] kind = "netv4" -> <<0, 0, 0, 0, 0>>
              [] kind \in {"u64", "f64"} -> [i \in 1..8 |-> 0]
              [] kind = "u128" -> [i \in 1..16 |-> 0]
              [] kind = "pubkey" -> [i \in 1..32 |-> 0]
        plain == {"bool", "u8nz", "u8", "u16", "u32", "ipv4", "netv4", "u64", "f64",
                  "u128", "pubkey"}
    IN  \A k \in 0..(Len(fs) - 1) :
            (/\ dout # Pending
             /\ din.bad = 0
             /\ din.cut = FieldStart(din, k + 1)
             /\ \A j \in (k + 1)..Len(fs) : fs[j].kind \in plain) =>
                /\ dout.ok
                /\ dout.off = Len(ddata)
                /\ Len(dout.fields) = Len(fs)
                /\ SubSeq(dout.fields, 1, k)
                      = DecodeFrom(SubSeq(fs, 1, k), 1, ddata, DecodeStart(0)).fields
                /\ \A j \in (k + 1)..Len(fs) : dout.fields[j] = zero(fs[j].kind)

\* An Exchange account that ends before its last three fields, reference_count
\* and the two device keys, was decoded.
C23_Witness ==
    /\ dout # Pending
    /\ dout.ok
    /\ din.rec = "Exchange"
    /\ din.cut = FieldStart(din, 12)
    /\ Len(dout.fields) = 14

\* C26: a Device whose interfaces count is whole in the buffer and larger
\* than the number of whole interface sub-records after it does not decode:
\* from_bytes fails.
C26_InterfacesVectorAtomic ==
    LET i == CHOOSE k \in 1..Len(Fields("Device")) : Fields("Device")[k].kind = "ifaces"
    IN  (/\ dout # Pending
         /\ din.rec = "Device"
         /\ din.bad = 0
         /\ din.cut >= FieldStart(din, i) + 4
         /\ din.cut < FullEnds(din)[i]) =>
            ~dout.ok

---------------------------------------------------------------------------
(* The lenient decoders of smartcontract/sdk/python/serviceability_borsh.py: *)
(* construct schemas parsed from a stream that pads short reads.             *)

\* The bytes after the lead byte b of a UTF-8 sequence, 0 when b leads none.
TrailLen(b) ==
    IF b >= 194 /\ b <= 223 THEN 1
    ELSE IF b >= 224 /\ b <= 239 THEN 2
    ELSE IF b >= 240 /\ b <= 244 THEN 3
    ELSE 0

\* How many bytes after the lead byte s[1] continue a well-formed sequence.
Conforming(s) ==
    LET SecondOk(b, c) ==
            CASE b = 224 -> c >= 160 /\ c <= 191
              [] b = 237 -> c >= 128 /\ c <= 159
              [] b = 240 -> c >= 144 /\ c <= 191
              [] b = 244 -> c >= 128 /\ c <= 143
              [] OTHER -> IsCont(c)
        t == TrailLen(s[1])
        c1 == t >= 1 /\ Len(s) >= 2 /\ SecondOk(s[1], s[2])
        c2 == c1 /\ t >= 2 /\ Len(s) >= 3 /\ IsCont(s[3])
        c3 == c2 /\ t >= 3 /\ Len(s) >= 4 /\ IsCont(s[4])
    IN  IF c3 THEN 3 ELSE IF c2 THEN 2 ELSE IF c1 THEN 1 ELSE 0

\* bytes.decode("utf-8", "replace"), as the UTF-8 of the resulting text: each
\* maximal ill-formed run becomes U+FFFD.
RECURSIVE Utf8Replace(_)
Utf8Replace(s) ==
    IF s = <<>> THEN <<>>
    ELSE IF s[1] <= 127 THEN <<s[1]>> \o Utf8Replace(Tail(s))
    ELSE LET t == TrailLen(s[1])
             c == Conforming(s)
         IN  IF t > 0 /\ c = t
             THEN SubSeq(s, 1, t + 1) \o Utf8Replace(SubSeq(s, t + 2, Len(s)))
             ELSE <<239, 191, 189>> \o Utf8Replace(SubSeq(s, c + 2, Len(s)))

\* io.BytesIO.read(n): the bytes that exist, unpadded.
BytesIO_read(d, pos, n) ==
    LET b == Slice(d, pos, pos + n)
    IN  [bytes |-> b, pos |-> pos + Len(b)]

\* ZeroPadBytesIO.read(n), n >= 0: the bytes that exist, padded with zeros to
\* n bytes; the position moves past the bytes that exist.
ZeroPadBytesIO_read(d, pos, n) ==
    LET b == Slice(d, pos, pos + n)
    IN  [bytes |-> b \o Zeros(n - Len(b)), pos |-> pos + Len(b)]

\* A fixed-size construct (U8 .. F64, Bytes(n)) reading its n bytes from the
\* stream: StreamError when the stream returns fewer.
stream_read(d, pos, n) ==
    LET r == ZeroPadBytesIO_read(d, pos, n)
    IN  IF Len(r.bytes) # n THEN Raise(r.pos, "StreamError") ELSE Ok(r.pos, r.bytes)

\* SafeBorshString._parse
SafeBorshString_parse(d, pos) ==
    LET raw_len == ZeroPadBytesIO_read(d, pos, 4)
        n == AsCount(raw_len.bytes)
        rem == IF Len(d) - raw_len.pos > 0 THEN Len(d) - raw_len.pos ELSE 0
        body == ZeroPadBytesIO_read(d, raw_len.pos, n)
    IN  IF Len(raw_len.bytes) # 4 THEN Ok(raw_len.pos, <<>>)
        ELSE IF n = 0 THEN Ok(raw_len.pos, <<>>)
        ELSE IF n > rem THEN Ok(Len(d), <<>>)
        ELSE Ok(body.pos, Utf8Replace(body.bytes))

\* out.append(self.elem_parser.parse_stream(stream)) for _ in range(n)
RECURSIVE ParseElems(_, _, _, _, _)
ParseElems(d, pos, n, w, acc) ==
    IF n = 0 THEN Ok(pos, acc)
    ELSE LET r == stream_read(d, pos, w)
         IN  IF r.ok THEN ParseElems(d, r.off, n - 1, w, Append(acc, r.val)) ELSE r

\* SafeFixedVec(elem_size, elem_parser)._parse
SafeFixedVec_parse(d, pos, elem_size) ==
    LET raw_len == ZeroPadBytesIO_read(d, pos, 4)
        n == AsCount(raw_len.bytes)
        rem == IF Len(d) - raw_len.pos > 0 THEN Len(d) - raw_len.pos ELSE 0
    IN  IF Len(raw_len.bytes) # 4 THEN Ok(raw_len.pos, <<>>)
        ELSE IF n = 0 THEN Ok(raw_len.pos, <<>>)
        ELSE IF n * elem_size > rem THEN Ok(raw_len.pos, <<>>)
        ELSE ParseElems(d, raw_len.pos, n, elem_size, <<>>)

\* The bytes a fixed-size construct reads.
SizeOf(kind) ==
    CASE kind = "u8" -> 1
      [] kind = "u16" -> 2
      [] kind = "u32" -> 4
      [] kind = "u64" -> 8
      [] kind = "f64" -> 8
      [] kind = "pubkey" -> 32
      [] kind = "ipv4" -> 4
      [] kind = "netv4" -> 5

\* The fields every schema but ConfigSchema and ProgramConfigSchema opens with.
Header ==
    << F("account_type", "u8"), F("owner", "pubkey"), F("index", "uint128"),
       F("bump_seed", "u8") >>

\* The construct schemas: the fields of each CStruct in order.
Schema(name) ==
    CASE name = "ConfigSchema" ->
        << F("account_type", "u8"), F("owner", "pubkey"), F("bump_seed", "u8"),
           F("local_asn", "u32"), F("remote_asn", "u32"),
           F("tunnel_tunnel_block", "netv4"), F("user_tunnel_block", "netv4"),
           F("multicast_group_block", "netv4"), F("pubkey", "pubkey") >>
      [] name = "LocationSchema" ->
        Header \o
        << F("lat", "f64"), F("lng", "f64"), F("loc_id", "u32"), F("status", "u8"),
           F("code", "safestring"), F("name", "safestring"),
           F("country", "safestring"), F("pubkey", "pubkey") >>
      [] name = "ExchangeSchema" ->
        Header \o
        << F("lat", "f64"), F("lng", "f64"), F("bgp_community", "u16"),
           F("_unused_padding", "u16"), F("status", "u8"), F("code", "safestring"),
           F("name", "safestring"), F("ref_count", "u32"), F("device1_pk", "pubkey"),
           F("device2_pk", "pubkey") >>
      [] name = "ContributorSchema" ->
        Header \o
        << F("status", "u8"), F("code", "safestring"), F("name", "safestring"),
           F("pubkey", "pubkey") >>
      [] name = "DeviceSchema" ->
        Header \o
        << F("location_pubkey", "pubkey"), F("exchange_pubkey", "pubkey"),
           F("device_type", "u8"), F("public_ip", "ipv4"), F("status", "u8"),
           F("code", "safestring"), F("dz_prefixes", "safenetvec"),
           F("metrics_publisher_pubkey", "pubkey"), F("contributor_pubkey", "pubkey"),
           F("mgmt_vrf", "safestring"), F("interfaces", "ifvec"),
           F("reference_count", "u32"), F("users_count", "u16"),
           F("max_users", "u16") >>
      [] name = "LinkSchema" ->
        Header \o
        << F("side_a_pubkey", "pubkey"), F("side_z_pubkey", "pubkey"),
           F("link_type", "u8"), F("bandwidth", "u64"), F("mtu", "u32"),
           F("delay_ns", "u64"), F("jitter_ns", "u64"), F("tunnel_id", "u16"),
           F("tunnel_net", "netv4"), F("status", "u8"), F("code", "safestring"),
           F("contributor_pubkey", "pubkey"), F("side_a_iface_name", "safestring"),
           F("side_z_iface_name", "safestring"), F("delay_override_ns", "u64"),
           F("pubkey", "pubkey") >>
      [] name = "UserSchema" ->
        Header \o
        << F("user_type", "u8"), F("tenant_pubkey", "pubkey"),
           F("device_pubkey", "pubkey"), F("cyoa_type", "u8"), F("client_ip", "ipv4"),
           F("dz_ip", "ipv4"), F("tunnel_id", "u16"), F("tunnel_net", "netv4"),
           F("status", "u8"), F("publishers", "safepkvec"),
           F("subscribers", "safepkvec"), F("validator_pubkey", "pubkey"),
           F("pubkey", "pubkey") >>
      [] name = "MulticastGroupSchema" ->
        Header \o
        << F("tenant_pubkey", "pubkey"), F("multicast_ip", "ipv4"),
           F("max_bandwidth", "u64"), F("status", "u8"), F("code", "safestring"),
           F("pubkey", "pubkey") >>
      [] name = "ProgramConfigSchema" ->
        << F("account_type", "u8"), F("bump_seed", "u8"), F("version", "progver") >>
      [] name = "InterfaceV1" ->
        << F("status", "u8"), F("name", "safestring"), F("interface_type", "u8"),
           F("loopback_type", "u8"), F("vlan_id", "u16"), F("ip_net", "netv4"),
           F("node_segment_idx", "u16"), F("user_tunnel_endpoint", "u8") >>
      [] name = "InterfaceV2" ->
        << F("status", "u8"), F("name", "safestring"), F("interface_type", "u8"),
           F("interface_cyoa", "u8"), F("interface_dia", "u8"),
           F("loopback_type", "u8"), F("bandwidth", "u64"), F("cir", "u64"),
           F("mtu", "u16"), F("routing_mode", "u8"), F("vlan_id", "u16"),
           F("ip_net", "netv4"), F("node_segment_idx", "u16"),
           F("user_tunnel_endpoint", "u8") >>

\* One field of a schema that is not a Vec of interfaces.  Uint128 is
\* CStruct("high" / U64, "low" / U64); ProgramVersionSchema is
\* CStruct("major" / U32, "minor" / U32, "patch" / U32).
ParseField(f, d, st) ==
    CASE f.kind = "safestring" -> Stored(st, SafeBorshString_parse(d, st.off), 0)
      [] f.kind = "safepkvec" -> Stored(st, SafeFixedVec_parse(d, st.off, 32), 0)
      [] f.kind = "safenetvec" -> Stored(st, SafeFixedVec_parse(d, st.off, 5), 0)
      [] f.kind = "uint128" ->
            LET w == ParseElems(d, st.off, 2, 8, <<>>)
            IN  Stored(st, IF w.ok THEN Ok(w.off, [high |-> w.val[1], low |-> w.val[2]])
                           ELSE w, 0)
      [] f.kind = "progver" -> Stored(st, ParseElems(d, st.off, 3, 4, <<>>), 0)
      [] OTHER -> Stored(st, stream_read(d, st.off, SizeOf(f.kind)), 0)

RECURSIVE parse_stream(_, _, _, _)

\* InterfaceSchema whose Switch maps version 0 to InterfaceV2 too.
InterfaceSchema_parse_v2_for_all(d, pos) ==
    LET v == stream_read(d, pos, 1)
    IN  IF ~v.ok THEN v
        ELSE IF v.val[1] \notin {0, 1}
        THEN Ok(v.off, [version |-> v.val[1], fields |-> <<>>])
        ELSE LET st == parse_stream(Schema("InterfaceV2"), 1, d, DecodeStart(v.off))
             IN  IF st.ok
                 THEN Ok(st.off, [version |-> v.val[1], fields |-> st.fields])
                 ELSE Raise(st.off, st.err)

\* InterfaceSchema: "version" / U8, then Switch(this.version,
\* {0: InterfaceV1, 1: InterfaceV2}, default=CStruct()).
InterfaceSchema_parse(d, pos) ==
    LET v == stream_read(d, pos, 1)
    IN  IF ~v.ok THEN v
        ELSE IF v.val[1] \notin {0, 1}
        THEN Ok(v.off, [version |-> v.val[1], fields |-> <<>>])
        ELSE LET st == parse_stream(Schema(IF v.val[1] = 0 THEN "InterfaceV1"
                                           ELSE "InterfaceV2"),
                                    1, d, DecodeStart(v.off))
             IN  IF st.ok
                 THEN Ok(st.off, [version |-> v.val[1], fields |-> st.fields])
                 ELSE Raise(st.off, st.err)

RECURSIVE ParseInterfaces(_, _, _, _)
ParseInterfaces(d, pos, n, acc) ==
    IF n = 0 THEN Ok(pos, acc)
    ELSE LET r == InterfaceSchema_parse(d, pos)
         IN  IF r.ok THEN ParseInterfaces(d, r.off, n - 1, Append(acc, r.val))
             ELSE r

\* Vec(InterfaceSchema): a u32 count, then that many interfaces.
Vec_InterfaceSchema_parse(d, pos) ==
    LET p == stream_read(d, pos, 4)
    IN  IF p.ok THEN ParseInterfaces(d, p.off, AsCount(p.val), <<>>) ELSE p

\* schema.parse_stream(stream): the fields of the schema in order.
parse_stream(schema, i, d, st) ==
    IF i > Len(schema) \/ ~st.ok THEN st
    ELSE parse_stream(schema, i + 1, d,
                      IF schema[i].kind = "ifvec"
                      THEN Stored(st, Vec_InterfaceSchema_parse(d, st.off), 0)
                      ELSE ParseField(schema[i], d, st))

\* parse_lenient(schema, data)
parse_lenient(name, d) == parse_stream(Schema(name), 1, d, DecodeStart(0))

---------------------------------------------------------------------------
(* get_program_data: the accounts of the program, each dispatched on its   *)
(* leading byte.  Two clients: serviceability/client.py ("sdk") and        *)
(* serviceability_borsh.py ("borsh").                                      *)

\* The if-chain with a branch for the leading byte of a Tenant, decoded as
\* an AccessPass.
DecoderOf_with_tenant(t) ==
    CASE t = 1 -> "GlobalState"
      [] t = 2 -> "GlobalConfig"
      [] t = 3 -> "Location"
      [] t = 4 -> "Exchange"
      [] t = 5 -> "Device"
      [] t = 6 -> "Link"
      [] t = 7 -> "User"
      [] t = 8 -> "MulticastGroup"
      [] t = 9 -> "ProgramConfig"
      [] t = 10 -> "Contributor"
      [] t \in {11, 13} -> "AccessPass"
      [] OTHER -> ""

\* The if-chain of serviceability/client.py: the decoder for a leading byte.
DecoderOf(t) ==
    CASE t = 1 -> "GlobalState"
      [] t = 2 -> "GlobalConfig"
      [] t = 3 -> "Location"
      [] t = 4 -> "Exchange"
      [] t = 5 -> "Device"
      [] t = 6 -> "Link"
      [] t = 7 -> "User"
      [] t = 8 -> "MulticastGroup"
      [] t = 9 -> "ProgramConfig"
      [] t = 10 -> "Contributor"
      [] t = 11 -> "AccessPass"
      [] OTHER -> ""

\* The attribute of ProgramData a decoded record goes to.
AttrOf(rec) ==
    CASE rec = "GlobalState" -> "global_state"
      [] rec = "GlobalConfig" -> "global_config"
      [] rec = "Location" -> "locations"
      [] rec = "Exchange" -> "exchanges"
      [] rec = "Device" -> "devices"
      [] rec = "Link" -> "links"
      [] rec = "User" -> "users"
      [] rec = "MulticastGroup" -> "multicast_groups"
      [] rec = "ProgramConfig" -> "program_config"
      [] rec = "Contributor" -> "contributors"
      [] rec = "AccessPass" -> "access_passes"

\* The if-chain of serviceability_borsh.py: the schema for a leading byte.
SchemaOf(t) ==
    CASE t = 2 -> "ConfigSchema"
      [] t = 3 -> "LocationSchema"
      [] t = 4 -> "ExchangeSchema"
      [] t = 10 -> "ContributorSchema"
      [] t = 5 -> "DeviceSchema"
      [] t = 6 -> "LinkSchema"
      [] t = 7 -> "UserSchema"
      [] t = 8 -> "MulticastGroupSchema"
      [] t = 9 -> "ProgramConfigSchema"
      [] OTHER -> ""

SchemaAttr(name) ==
    CASE name = "ConfigSchema" -> "config"
      [] name = "LocationSchema" -> "locations"
      [] name = "ExchangeSchema" -> "exchanges"
      [] name = "ContributorSchema" -> "contributors"
      [] name = "DeviceSchema" -> "devices"
      [] name = "LinkSchema" -> "links"
      [] name = "UserSchema" -> "users"
      [] name = "MulticastGroupSchema" -> "multicast_groups"
      [] name = "ProgramConfigSchema" -> "program_config"

\* The attributes that hold one record (None, here <<>>, until assigned).
Singletons == { "global_state", "global_config", "program_config", "config" }

\* ProgramData(): every attribute None or an empty list.
ProgramData(impl) ==
    IF impl = "sdk"
    THEN [a \in { "global_state", "global_config", "program_config", "locations",
                  "exchanges", "devices", "links", "users", "multicast_groups",
                  "contributors", "access_passes" } |-> <<>>]
    ELSE [a \in { "config", "locations", "exchanges", "contributors", "devices",
                  "links", "users", "multicast_groups", "program_config",
                  "parse_errors" } |-> <<>>]

\* pd.<attr> = x for a singleton, pd.<attr>.append(x) for a list.
Put(p, attr, x) ==
    [p EXCEPT ![attr] = IF attr \in Singletons THEN <<x>> ELSE Append(@, x)]

\* A whole valid account of a record type, as a decode input.
Whole(rec) ==
    [rec |-> rec, fill |-> 1, tag |-> 0, cut |-> Len(ValidAccount(rec, 1, 0)),
     bad |-> 0, at |-> 0, badv |-> 0]

\* The accounts a batch is drawn from, as decode inputs: whole accounts, a
\* ProgramConfig and a Link cut short, a Location cut inside its code
\* string (its 9th field), a Location with a status outside LocationStatus,
\* and a Location whose code is not UTF-8.
PoolInputs ==
    { Whole("Tenant"), Whole("GlobalState"), Whole("ProgramConfig"),
      Whole("Location"),
      [Whole("ProgramConfig") EXCEPT !.cut = 10],
      [Whole("Location") EXCEPT !.cut = FieldStart(Whole("Location"), 9) + 5],
      [Whole("Link") EXCEPT !.cut = 1],
      [Whole("Location") EXCEPT !.bad = 8, !.at = 1, !.badv = 9],
      [Whole("Location") EXCEPT !.bad = 9, !.at = 5, !.badv = 200] }

\* The pool: those accounts, each with what it is (whole, truncated or
\* corrupt), an empty buffer, and a buffer with a leading byte no account
\* type has.
BatchPool ==
    { [kind |-> IF in.bad # 0 THEN "corrupt"
                ELSE IF in.cut < Len(ValidAccount(in.rec, in.fill, in.tag))
                THEN "truncated"
                ELSE "whole",
       data |-> InputData(in)] : in \in PoolInputs }
        \cup { [kind |-> "whole", data |-> <<>>],
               [kind |-> "whole", data |-> <<99, 1, 2>>] }

\* The batches: every sequence of at most MaxBatch buffers of the pool.  The
\* identifier of an account is its position in the batch.
Batches == UNION { [1..n -> BatchPool] : n \in 0..MaxBatch }

InitBatch ==
    /\ bimpl \in {"sdk", "borsh"}
    /\ accounts \in Batches
    /\ bpos = 1
    /\ pd = ProgramData(bimpl)
    /\ placed = {}
    /\ bstatus = "running"
    /\ Idle("batch")

\* One iteration of the loop of Client.get_program_data in
\* serviceability/client.py: an empty buffer or one with no decoder is
\* skipped, a decoded record is stored, and with no try/except the exception
\* of a decoder leaves get_program_data.
DispatchSdk ==
    /\ bimpl = "sdk"
    /\ bstatus = "running"
    /\ bpos <= Len(accounts)
    /\ LET d == accounts[bpos].data
           rec == IF d = <<>> THEN "" ELSE DecoderOf(d[1])
           r == from_bytes(rec, d)
       IN  IF rec = "" THEN bpos' = bpos + 1 /\ UNCHANGED <<pd, placed, bstatus>>
           ELSE IF r.ok
           THEN /\ pd' = Put(pd, AttrOf(rec), [fields |-> r.fields])
                /\ placed' = placed \cup {bpos}
                /\ bpos' = bpos + 1
                /\ UNCHANGED bstatus
           ELSE /\ bstatus' = "raised"
                /\ UNCHANGED <<bpos, pd, placed>>
    /\ UNCHANGED <<bimpl, accounts, readerVars, decodeVars, fixedVars, interfaceVars,
                   telemetryVars, retryVars>>

\* One iteration of the loop of Client.get_program_data in
\* serviceability_borsh.py: an empty buffer or one with no schema is skipped,
\* a parsed record is stored with the account's identifier (program_config
\* without it), and on ConstructError the error is recorded and the loop goes
\* on.
DispatchBorsh ==
    /\ bimpl = "borsh"
    /\ bstatus = "running"
    /\ bpos <= Len(accounts)
    /\ LET d == accounts[bpos].data
           name == IF d = <<>> THEN "" ELSE SchemaOf(d[1])
           r == parse_lenient(name, d)
       IN  IF name = "" THEN UNCHANGED <<pd, placed>>
           ELSE IF r.ok
           THEN /\ pd' = Put(pd, SchemaAttr(name),
                             IF name = "ProgramConfigSchema"
                             THEN [fields |-> r.fields]
                             ELSE [fields |-> r.fields, pubkey_account |-> bpos])
                /\ placed' = placed \cup {bpos}
           ELSE /\ pd' = Put(pd, "parse_errors", <<bpos, d[1], Len(d), r.err>>)
                /\ UNCHANGED placed
    /\ bpos' = bpos + 1
    /\ UNCHANGED <<bimpl, accounts, bstatus, readerVars, decodeVars, fixedVars,
                   interfaceVars,
                   telemetryVars, retryVars>>

\* return pd
ReturnData ==
    /\ bstatus = "running"
    /\ bpos > Len(accounts)
    /\ bstatus' = "returned"
    /\ UNCHANGED <<bimpl, accounts, bpos, pd, placed, readerVars, decodeVars, fixedVars,
                   interfaceVars,
                   telemetryVars, retryVars>>

NextBatch == DispatchSdk \/ DispatchBorsh \/ ReturnData

SpecBatch == InitBatch /\ [][NextBatch]_vars

\* get_program_data as a function of the accounts in the order the response
\* lists them, ids[i] the identifier of accs[i]: the loop from account i on,
\* with p the ProgramData built so far.
RECURSIVE get_program_data(_, _, _, _, _)
get_program_data(impl, accs, ids, i, p) ==
    IF i > Len(accs) THEN [status |-> "returned", pd |-> p]
    ELSE LET d == accs[i].data
         IN  IF impl = "sdk"
             THEN LET rec == IF d = <<>> THEN "" ELSE DecoderOf(d[1])
                      r == from_bytes(rec, d)
                  IN  IF rec = "" THEN get_program_data(impl, accs, ids, i + 1, p)
                      ELSE IF r.ok
                      THEN get_program_data(impl, accs, ids, i + 1,
                                            Put(p, AttrOf(rec), [fields |-> r.fields]))
                      ELSE [status |-> "raised", pd |-> p]
             ELSE LET name == IF d = <<>> THEN "" ELSE SchemaOf(d[1])
                      r == parse_lenient(name, d)
                  IN  IF name = "" THEN get_program_data(impl, accs, ids, i + 1, p)
                      ELSE get_program_data(
                              impl, accs, ids, i + 1,
                              IF ~r.ok
                              THEN Put(p, "parse_errors", <<ids[i], d[1], Len(d), r.err>>)
                              ELSE IF name = "ProgramConfigSchema"
                              THEN Put(p, SchemaAttr(name), [fields |-> r.fields])
                              ELSE Put(p, SchemaAttr(name),
                                       [fields |-> r.fields, pubkey_account |-> ids[i]]))

---------------------------------------------------------------------------
(* Claims about get_program_data, checked under SpecBatch.                 *)

\* The error list of the call; the sdk client has none.
Errors == IF "parse_errors" \in DOMAIN pd THEN pd.parse_errors ELSE <<>>

\* The buffer is not empty and its leading byte is one the client has a
\* decoder for.
Recognized(impl, d) ==
    d # <<>> /\ d[1] \in (IF impl = "sdk" THEN 1..11 ELSE 2..10)

\* Decoding the buffer fails in the client.
DecodeFails(impl, d) ==
    /\ Recognized(impl, d)
    /\ IF impl = "sdk" THEN ~from_bytes(DecoderOf(d[1]), d).ok
       ELSE ~parse_lenient(SchemaOf(d[1]), d).ok

\* C7: no decode failure leaves the batch call, and each buffer gone through
\* whose decode fails has a ParseError with its identifier, leading byte and
\* length in the error list.
C7_BatchAlwaysCompletes ==
    /\ bstatus # "raised"
    /\ \A i \in 1..(bpos - 1) :
          DecodeFails(bimpl, accounts[i].data) =>
              \E k \in 1..Len(Errors) :
                  /\ Errors[k][1] = i
                  /\ Errors[k][2] = accounts[i].data[1]
                  /\ Errors[k][3] = Len(accounts[i].data)

\* The truncated buffers of the batch.
Truncated == { i \in 1..Len(accounts) : accounts[i].kind = "truncated" }

C9_SkipLeavesResultsUnchanged ==
    [][(/\ bstatus = "running"
        /\ bpos <= Len(accounts)
        /\ ~Recognized(bimpl, accounts[bpos].data))
            => (pd' = pd /\ bstatus' = "running" /\ bpos' = bpos + 1)]_vars

\* A buffer with an unregistered leading byte came after a stored record, in
\* a batch that also holds an empty buffer.
C9_Witness ==
    /\ bstatus = "returned"
    /\ \E i \in 1..Len(accounts) :
          /\ accounts[i].data # <<>>
          /\ ~Recognized(bimpl, accounts[i].data)
          /\ \E j \in placed : j < i
    /\ \E i \in 1..Len(accounts) : accounts[i].data = <<>>


\* C17: the first u128 field of a decoded account (index, or account_index of
\* the global state), in either client, has as its low 64-bit word the first
\* 8 bytes of the field in the buffer and as its high word the next 8: its
\* value is low | (high << 64).  The record looked at is the one the last
\* dispatched account was decoded to.
C17_U128LowWordFirst ==
    LET d == accounts[bpos - 1].data
        sdk == bimpl = "sdk"
        schema == IF sdk THEN Fields(DecoderOf(d[1])) ELSE Schema(SchemaOf(d[1]))
        attr == IF sdk THEN AttrOf(DecoderOf(d[1])) ELSE SchemaAttr(SchemaOf(d[1]))
        v == pd[attr][Len(pd[attr])].fields[3]
        start == IF schema[2].kind = "pubkey" THEN 33 ELSE 2
    IN  (/\ bpos > 1
         /\ bpos - 1 \in placed
         /\ Len(schema) >= 3
         /\ schema[3].kind \in {"u128", "uint128"}
         /\ Len(d) >= start + 16) =>
            /\ (IF sdk THEN SubSeq(v, 1, 8) ELSE v.low)
                  = SubSeq(d, start + 1, start + 8)
            /\ (IF sdk THEN SubSeq(v, 9, 16) ELSE v.high)
                  = SubSeq(d, start + 9, start + 16)


\* C24: the result of a call that returned does not depend on the order of
\* the accounts: for every permutation of the accounts, each with its
\* identifier, the call returns too, every list of records holds the same
\* records the same number of times, and every single-record attribute
\* holds the same value.  (The error list is left out: its order follows the
\* input.)
C24_OrderIndependent ==
    LET n == Len(accounts)
        count(seq, x) == Cardinality({ k \in 1..Len(seq) : seq[k] = x })
        sameBag(a, b) ==
            /\ Len(a) = Len(b)
            /\ \A k \in 1..Len(a) : count(a, a[k]) = count(b, a[k])
    IN  bstatus = "returned" =>
            \A perm \in Permutations(1..n) :
                LET other == get_program_data(bimpl, [k \in 1..n |-> accounts[perm[k]]],
                                              [k \in 1..n |-> perm[k]], 1,
                                              ProgramData(bimpl))
                IN  /\ other.status = "returned"
                    /\ \A a \in DOMAIN pd \ {"parse_errors"} :
                          IF a \in Singletons THEN other.pd[a] = pd[a]
                          ELSE sameBag(other.pd[a], pd[a])

---------------------------------------------------------------------------
(* Fixed-layout accounts of the revenue distribution program                *)
(* (revdist/state.py): an 8-byte discriminator, then fields at fixed        *)
(* offsets.                                                                 *)

DISCRIMINATOR_SIZE == 8

\* DISCRIMINATOR_<TYPE>: the first 8 bytes of sha256("dz::account::<name>"),
\* computed at import; the client passes the one of the type it fetches.
DiscriminatorOf(type) ==
    CASE type = "ProgramConfig" -> <<207, 180, 133, 236, 48, 39, 241, 27>>
      [] type = "Distribution" -> <<135, 158, 143, 216, 29, 34, 192, 37>>
      [] type = "SolanaValidatorDeposit" -> <<20, 233, 12, 197, 155, 249, 203, 170>>
      [] type = "ContributorRewards" -> <<113, 30, 217, 40, 0, 185, 226, 203>>
      [] type = "Journal" -> <<249, 124, 83, 20, 162, 62, 67, 9>>

FixedTypes ==
    { "ProgramConfig", "Distribution", "SolanaValidatorDeposit",
      "ContributorRewards", "Journal" }

\* STRUCT_SIZE of each struct.
STRUCT_SIZE(type) ==
    CASE type = "CommunityBurnRateParameters" -> 24
      [] type = "SolanaValidatorFeeParameters" -> 40
      [] type = "DistributionParameters" -> 328
      [] type = "RelayParameters" -> 40
      [] type = "RecipientShare" -> 34
      [] type = "ProgramConfig" -> 600
      [] type = "Distribution" -> 448
      [] type = "SolanaValidatorDeposit" -> 96
      [] type = "ContributorRewards" -> 600
      [] type = "Journal" -> 64

\* A field of a struct: its name, its size in bytes, and the struct it is, if
\* it is one.
P(name, size) == [name |-> name, size |-> size, sub |-> ""]

S(name, sub) == [name |-> name, size |-> STRUCT_SIZE(sub), sub |-> sub]

\* The fields of each struct in the order from_bytes reads them.
Layout(type) ==
    CASE type = "CommunityBurnRateParameters" ->
            << P("limit", 4), P("dz_epochs_to_increasing", 4),
               P("dz_epochs_to_limit", 4), P("cached_slope_numerator", 4),
               P("cached_slope_denominator", 4), P("cached_next_burn_rate", 4) >>
      [] type = "SolanaValidatorFeeParameters" ->
            << P("base_block_rewards_pct", 2), P("priority_block_rewards_pct", 2),
               P("inflation_rewards_pct", 2), P("jito_tips_pct", 2),
               P("fixed_sol_amount", 4), P("reserved0", 28) >>
      [] type = "DistributionParameters" ->
            << P("calculation_grace_period_minutes", 2),
               P("initialization_grace_period_minutes", 2),
               P("minimum_epoch_duration_to_finalize_rewards", 1),
               P("reserved0", 3),
               S("community_burn_rate_parameters", "CommunityBurnRateParameters"),
               S("solana_validator_fee_parameters", "SolanaValidatorFeeParameters"),
               P("reserved1", 256) >>
      [] type = "RelayParameters" ->
            << P("placeholder_lamports", 4), P("distribute_rewards_lamports", 4),
               P("reserved0", 32) >>
      [] type = "RecipientShare" -> << P("recipient_key", 32), P("share", 2) >>
      [] type = "ProgramConfig" ->
            << P("flags", 8), P("next_completed_dz_epoch", 8), P("bump_seed", 1),
               P("reserve_2z_bump_seed", 1), P("swap_authority_bump_seed", 1),
               P("swap_destination_2z_bump_seed", 1),
               P("withdraw_sol_authority_bump_seed", 1), P("reserved0", 3),
               P("admin_key", 32), P("debt_accountant_key", 32),
               P("rewards_accountant_key", 32), P("contributor_manager_key", 32),
               P("placeholder_key", 32), P("sol_2z_swap_program_id", 32),
               S("distribution_parameters", "DistributionParameters"),
               S("relay_parameters", "RelayParameters"),
               P("last_initialized_distribution_timestamp", 4), P("reserved1", 4),
               P("debt_write_off_feature_activation_epoch", 8) >>
      [] type = "Distribution" ->
            << P("dz_epoch", 8), P("flags", 8), P("community_burn_rate", 4),
               P("bump_seed", 1), P("token_2z_pda_bump_seed", 1), P("reserved0", 2),
               S("solana_validator_fee_parameters", "SolanaValidatorFeeParameters"),
               P("solana_validator_debt_merkle_root", 32),
               P("total_solana_validators", 4),
               P("solana_validator_payments_count", 4),
               P("total_solana_validator_debt", 8),
               P("collected_solana_validator_payments", 8),
               P("rewards_merkle_root", 32), P("total_contributors", 4),
               P("distributed_rewards_count", 4),
               P("collected_prepaid_2z_payments", 8),
               P("collected_2z_converted_from_sol", 8),
               P("uncollectible_sol_debt", 8),
               P("processed_sv_debt_start_index", 4),
               P("processed_sv_debt_end_index", 4),
               P("processed_rewards_start_index", 4),
               P("processed_rewards_end_index", 4),
               P("distribute_rewards_relay_lamports", 4),
               P("calculation_allowed_timestamp", 4),
               P("distributed_2z_amount", 8), P("burned_2z_amount", 8),
               P("processed_sv_debt_wo_start_index", 4),
               P("processed_sv_debt_wo_end_index", 4),
               P("solana_validator_write_off_count", 4), P("reserved1", 20),
               P("reserved2", 192) >>
      [] type = "SolanaValidatorDeposit" ->
            << P("node_id", 32), P("written_off_sol_debt", 8), P("reserved0", 24),
               P("reserved1", 32) >>
      [] type = "ContributorRewards" ->
            << P("rewards_manager_key", 32), P("service_key", 32), P("flags", 8),
               S("recipient_shares_0", "RecipientShare"),
               S("recipient_shares_1", "RecipientShare"),
               S("recipient_shares_2", "RecipientShare"),
               S("recipient_shares_3", "RecipientShare"),
               S("recipient_shares_4", "RecipientShare"),
               S("recipient_shares_5", "RecipientShare"),
               S("recipient_shares_6", "RecipientShare"),
               S("recipient_shares_7", "RecipientShare"),
               P("reserved0", 256) >>
      [] type = "Journal" ->
            << P("bump_seed", 1), P("token_2z_pda_bump_seed", 1), P("reserved0", 6),
               P("total_sol_balance", 8), P("total_2z_balance", 8),
               P("swap_2z_destination_balance", 8), P("swapped_sol_amount", 8),
               P("next_dz_epoch_to_sweep_tokens", 8),
               P("lifetime_swapped_2z_amount", 16) >>

\* Unpack whose last field takes every byte up to the end of the buffer.
RECURSIVE Unpack_to_end(_, _, _, _)
Unpack_to_end(type, i, b, off) ==
    IF i > Len(Layout(type)) THEN <<>>
    ELSE <<IF Layout(type)[i].sub # ""
           THEN Unpack_to_end(Layout(type)[i].sub, 1, b, off)
           ELSE IF i = Len(Layout(type)) THEN Slice(b, off, Len(b))
           ELSE Slice(b, off, off + Layout(type)[i].size)>>
            \o Unpack_to_end(type, i + 1, b, off + Layout(type)[i].size)

\* The values of the fields type[i..] read from b at off: the bytes of a plain
\* field, the values of the fields of a nested struct.
RECURSIVE Unpack(_, _, _, _)
Unpack(type, i, b, off) ==
    IF i > Len(Layout(type)) THEN <<>>
    ELSE <<IF Layout(type)[i].sub = ""
           THEN Slice(b, off, off + Layout(type)[i].size)
           ELSE Unpack(Layout(type)[i].sub, 1, b, off)>>
            \o Unpack(type, i + 1, b, off + Layout(type)[i].size)

\* validate_discriminator that checks the length only.
validate_discriminator_length_only(d, expected) ==
    IF Len(d) < DISCRIMINATOR_SIZE THEN Raise(0, "data too short")
    ELSE Ok(0, <<>>)

validate_discriminator(d, expected) ==
    IF Len(d) < DISCRIMINATOR_SIZE THEN Raise(0, "data too short")
    ELSE IF Slice(d, 0, DISCRIMINATOR_SIZE) # expected
         THEN Raise(0, "invalid discriminator")
    ELSE Ok(0, <<>>)

\* _deserialize that looks at the length of the body before the discriminator.
_deserialize_body_first(d, discriminator, min_size) ==
    IF Len(d) - DISCRIMINATOR_SIZE < min_size
    THEN Raise(0, "account data too short")
    ELSE LET v == validate_discriminator(d, discriminator)
         IN  IF ~v.ok THEN v
             ELSE Ok(DISCRIMINATOR_SIZE, Slice(d, DISCRIMINATOR_SIZE, Len(d)))

\* _deserialize(data, discriminator, min_size): the body after the
\* discriminator, at least min_size bytes.
_deserialize(d, discriminator, min_size) ==
    LET v == validate_discriminator(d, discriminator)
    IN  IF ~v.ok THEN v
        ELSE IF Len(d) - DISCRIMINATOR_SIZE < min_size
        THEN Raise(0, "account data too short")
        ELSE Ok(DISCRIMINATOR_SIZE, Slice(d, DISCRIMINATOR_SIZE, Len(d)))

\* The value of off when from_bytes of a struct has read the fields
\* type[i..]: each read adds its size, a nested struct its STRUCT_SIZE.
RECURSIVE Covered(_, _)
Covered(type, i) ==
    IF i > Len(Layout(type)) THEN 0
    ELSE Layout(type)[i].size + Covered(type, i + 1)

\* The structs whose from_bytes ends with
\* assert off == cls.STRUCT_SIZE (off - offset for a nested one).
Asserting ==
    { "DistributionParameters", "ProgramConfig", "Distribution",
      "SolanaValidatorDeposit", "ContributorRewards", "Journal" }

\* The structs whose from_bytes runs when a struct is decoded: its own and
\* those of the structs nested in it.
RECURSIVE StructsOf(_)
StructsOf(type) ==
    {type} \cup UNION { StructsOf(Layout(type)[i].sub) :
                          i \in { j \in 1..Len(Layout(type)) : Layout(type)[j].sub # "" } }

\* <Type>.from_bytes that unpacks from the start of the buffer, discriminator
\* included.
fixed_from_bytes_raw(type, d, discriminator) ==
    LET b == _deserialize(d, discriminator, STRUCT_SIZE(type))
    IN  IF ~b.ok THEN b ELSE Ok(b.off, Unpack(type, 1, d, 0))

\* <Type>.from_bytes(data, discriminator) of revdist/state.py: the body is
\* validated, the fields are read, and a byte-coverage assert that does not
\* hold raises AssertionError.
fixed_from_bytes(type, d, discriminator) ==
    LET b == _deserialize(d, discriminator, STRUCT_SIZE(type))
    IN  IF ~b.ok THEN b
        ELSE IF \E t \in StructsOf(type) \cap Asserting :
                    Covered(t, 1) # STRUCT_SIZE(t)
        THEN Raise(b.off, "AssertionError")
        ELSE Ok(b.off, Unpack(type, 1, b.val, 0))

\* The buffers: a head (a discriminator, whole, with one byte changed, or cut
\* short; or 8 zero bytes) and behind a whole head a body of some length and
\* content.
FixedBuffers(type, expected) ==
    LET heads ==
            { DiscriminatorOf(t) : t \in FixedTypes }
                \cup { Zeros(DISCRIMINATOR_SIZE) }
                \cup { [expected EXCEPT ![k] = (@ + 1) % 256] :
                        k \in 1..DISCRIMINATOR_SIZE }
                \cup { SubSeq(expected, 1, n) : n \in {0, 1, DISCRIMINATOR_SIZE - 1} }
        lens == { 0, STRUCT_SIZE(type) - 1, STRUCT_SIZE(type),
                  STRUCT_SIZE(type) + ExtraLen }
        body(n, fill) == [i \in 1..n |-> (i * fill) % 256]
    IN  { h \o body(IF Len(h) < DISCRIMINATOR_SIZE THEN 0 ELSE n, fill) :
            h \in heads, n \in lens, fill \in 0..MaxBodyFill }

\* from_bytes has not been called yet.
NotDecoded == Raise(0, "pending")

InitFixed ==
    /\ ftype \in FixedTypes
    /\ fdisc \in { DiscriminatorOf(t) : t \in FixedTypes }
    /\ fdata \in FixedBuffers(ftype, fdisc)
    /\ fout = NotDecoded
    /\ fasserted = {}
    /\ Idle("fixed")

\* <Type>.from_bytes(data, discriminator); once the body is validated the
\* from_bytes of the struct and of its nested structs run, those with an
\* assert evaluating it.
FixedDecode ==
    /\ fout = NotDecoded
    /\ fout' = fixed_from_bytes(ftype, fdata, fdisc)
    /\ fasserted' = IF _deserialize(fdata, fdisc, STRUCT_SIZE(ftype)).ok
                    THEN StructsOf(ftype) \cap Asserting
                    ELSE {}
    /\ UNCHANGED <<ftype, fdisc, fdata, readerVars, decodeVars, batchVars,
                   interfaceVars,
                   telemetryVars, retryVars>>

NextFixed == FixedDecode

SpecFixed == InitFixed /\ [][NextFixed]_vars

---------------------------------------------------------------------------
(* Claims about the fixed-layout decoders, checked under SpecFixed.        *)

\* C10: when the first 8 bytes of the buffer are not the expected
\* discriminator (the buffer may have fewer), the decode fails and returns no
\* record, whatever the body's length and content.
C10_WrongDiscriminatorFails ==
    (/\ fout # NotDecoded
     /\ \E i \in 1..DISCRIMINATOR_SIZE : i > Len(fdata) \/ fdata[i] # fdisc[i])
        => ~fout.ok /\ fout.val = <<>>

\* A buffer long enough, with a body that is not all zeros, failed to decode
\* because one byte of its discriminator differs.
C10_Witness ==
    /\ fout # NotDecoded
    /\ ~fout.ok
    /\ Len(fdata) >= DISCRIMINATOR_SIZE + STRUCT_SIZE(ftype)
    /\ \E k \in 1..DISCRIMINATOR_SIZE :
          /\ fdata[k] # fdisc[k]
          /\ \A i \in 1..DISCRIMINATOR_SIZE : i # k => fdata[i] = fdisc[i]
    /\ \E i \in (DISCRIMINATOR_SIZE + 1)..Len(fdata) : fdata[i] # 0

\* C11: the decode checks, in this order, that the buffer has 8 bytes, that
\* its first 8 bytes are the expected discriminator, and that the body has
\* STRUCT_SIZE bytes; it fails with the error of the first check that does
\* not hold, succeeds exactly when all three hold, and a failed decode has
\* read no field.
C11_ChecksInOrder ==
    LET short == Len(fdata) < DISCRIMINATOR_SIZE
        wrong == SubSeq(fdata, 1, DISCRIMINATOR_SIZE) # fdisc
        small == Len(fdata) - DISCRIMINATOR_SIZE < STRUCT_SIZE(ftype)
    IN  fout # NotDecoded =>
            /\ short => fout.err = "data too short"
            /\ (~short /\ wrong) => fout.err = "invalid discriminator"
            /\ (~short /\ ~wrong /\ small) => fout.err = "account data too short"
            /\ fout.ok <=> (~short /\ ~wrong /\ ~small)
            /\ ~fout.ok => (fout.val = <<>> /\ fasserted = {})

\* A buffer with a wrong discriminator and a body one byte short reported the
\* discriminator.
C11_Witness ==
    /\ fout # NotDecoded
    /\ fout.err = "invalid discriminator"
    /\ Len(fdata) = DISCRIMINATOR_SIZE + STRUCT_SIZE(ftype) - 1

\* C12: a buffer with the expected discriminator and at least STRUCT_SIZE
\* body bytes decodes, and to the record its first 8 + STRUCT_SIZE bytes
\* alone decode to: two buffers that agree on those bytes decode to equal
\* records, whatever follows.
C12_TrailingBytesIgnored ==
    (/\ fout # NotDecoded
     /\ Len(fdata) >= DISCRIMINATOR_SIZE + STRUCT_SIZE(ftype)
     /\ SubSeq(fdata, 1, DISCRIMINATOR_SIZE) = fdisc)
        => /\ fout.ok
           /\ fout = fixed_from_bytes(
                        ftype,
                        SubSeq(fdata, 1, DISCRIMINATOR_SIZE + STRUCT_SIZE(ftype)),
                        fdisc)

\* A buffer with bytes that are not zero after its struct decoded.
C12_Witness ==
    /\ fout # NotDecoded
    /\ fout.ok
    /\ Len(fdata) > DISCRIMINATOR_SIZE + STRUCT_SIZE(ftype)
    /\ fdata[Len(fdata)] # 0

\* C13: for every struct a successful decode goes through, the top-level
\* record and the structs nested in it, the sizes of the fields and reserved
\* regions its decoder consumes add up to its STRUCT_SIZE, and the decoder
\* asserted that equality during the decode.
C13_ByteCoverageAsserted ==
    (fout # NotDecoded /\ fout.ok) =>
        \A t \in StructsOf(ftype) :
            /\ Covered(t, 1) = STRUCT_SIZE(t)
            /\ t \in fasserted

\* C14: a decoded ProgramConfig holds, for each field, the bytes at the
\* field's offset in the buffer, the 8-byte discriminator counted: flags at
\* 8, next_completed_dz_epoch at 16, bump_seed at 24, admin_key at 32,
\* distribution_parameters at 224 with its burn-rate block at 232 and its
\* validator-fee block at 256, relay_parameters at 552 and
\* debt_write_off_feature_activation_epoch at 600.
C14_ProgramConfigOffsets ==
    LET at(type, name) ==
            CHOOSE i \in 1..Len(Layout(type)) : Layout(type)[i].name = name
        raw(a, n) == SubSeq(fdata, a + 1, a + n)
        pc == fout.val
        dp == pc[at("ProgramConfig", "distribution_parameters")]
        burn == dp[at("DistributionParameters", "community_burn_rate_parameters")]
        vfee == dp[at("DistributionParameters", "solana_validator_fee_parameters")]
        relay == pc[at("ProgramConfig", "relay_parameters")]
    IN  (fout # NotDecoded /\ fout.ok /\ ftype = "ProgramConfig") =>
            /\ pc[at("ProgramConfig", "flags")] = raw(8, 8)
            /\ pc[at("ProgramConfig", "next_completed_dz_epoch")] = raw(16, 8)
            /\ pc[at("ProgramConfig", "bump_seed")] = raw(24, 1)
            /\ pc[at("ProgramConfig", "admin_key")] = raw(32, 32)
            /\ dp[at("DistributionParameters", "calculation_grace_period_minutes")]
                  = raw(224, 2)
            /\ burn[at("CommunityBurnRateParameters", "limit")] = raw(232, 4)
            /\ vfee[at("SolanaValidatorFeeParameters", "base_block_rewards_pct")]
                  = raw(256, 2)
            /\ relay[at("RelayParameters", "placeholder_lamports")] = raw(552, 4)
            /\ pc[at("ProgramConfig", "debt_write_off_feature_activation_epoch")]
                  = raw(600, 8)

\* A ProgramConfig decoded from a body in which bytes at different offsets
\* differ.
C14_Witness ==
    /\ fout # NotDecoded
    /\ fout.ok
    /\ ftype = "ProgramConfig"
    /\ fdata[9] # fdata[17]
    /\ fdata[601] # 0

---------------------------------------------------------------------------
(* One interface sub-record decoded on its own, by Interface.from_reader   *)
(* of the sdk or by InterfaceSchema of the lenient client, from a reader   *)
(* or stream that stands at some offset of the buffer.                     *)

\* The bytes of the buffer before the interface: 0..MaxSkip.
MaxSkip == 2

\* The version bytes tried: the two known versions, the first unknown one,
\* the next, and the largest.
Versions == {0, 1, CURRENT_INTERFACE_VERSION, CURRENT_INTERFACE_VERSION + 1, 255}

\* The buffers: some bytes, a version byte, and the fields of a version 0 or
\* version 1 interface, cut at a byte position.
InterfaceBuffers ==
    UNION { { SubSeq(Rep(skip, 7) \o <<v>>
                        \o Encode(Fields(body), 1, "Interface", fill, 0), 1, n) :
                n \in 0..(skip + 1
                            + Len(Encode(Fields(body), 1, "Interface", fill, 0))) } :
            skip \in 0..MaxSkip, v \in Versions,
            body \in {"InterfaceV1", "InterfaceV2"}, fill \in 1..MaxFill }

InitInterface ==
    /\ iimpl \in {"sdk", "borsh"}
    /\ idata \in InterfaceBuffers
    /\ ioff \in 0..MaxSkip
    /\ ioff <= Len(idata)
    /\ iout = NotDecoded
    /\ Idle("interface")

\* Interface.from_reader(r), r a DefensiveReader at ioff.
SdkInterface ==
    /\ iimpl = "sdk"
    /\ iout = NotDecoded
    /\ iout' = Interface_from_reader(idata, ioff)
    /\ UNCHANGED <<iimpl, idata, ioff, readerVars, decodeVars, batchVars, fixedVars,
                   telemetryVars, retryVars>>

\* InterfaceSchema.parse_stream(stream), the padding stream at ioff.
BorshInterface ==
    /\ iimpl = "borsh"
    /\ iout = NotDecoded
    /\ iout' = InterfaceSchema_parse(idata, ioff)
    /\ UNCHANGED <<iimpl, idata, ioff, readerVars, decodeVars, batchVars, fixedVars,
                   telemetryVars, retryVars>>

NextInterface == SdkInterface \/ BorshInterface

SpecInterface == InitInterface /\ [][NextInterface]_vars

\* C16: an interface decode takes the byte at the cursor as the version; when
\* that byte is 2 or more the decode succeeds with an interface that holds
\* the version and no other field, and the cursor is on the byte right after
\* the version byte.
C16_UnknownVersionStops ==
    (iout # NotDecoded /\ ioff < Len(idata)) =>
        /\ iout.ok => iout.val.version = idata[ioff + 1]
        /\ idata[ioff + 1] >= CURRENT_INTERFACE_VERSION =>
              /\ iout.ok
              /\ iout.off = ioff + 1
              /\ iout.val = [version |-> idata[ioff + 1], fields |-> <<>>]

\* An interface of version 255 with bytes behind the version byte was decoded
\* by the sdk.
C16_Witness ==
    /\ iout # NotDecoded
    /\ iimpl = "sdk"
    /\ ioff + 1 < Len(idata)
    /\ idata[ioff + 1] = 255
    /\ iout.ok

\* C25: an interface of version 0 is decoded as status, name,
\* interface_type, loopback_type, vlan_id, ip_net, node_segment_idx,
\* user_tunnel_endpoint, one of version 1 as status, name, interface_type,
\* interface_cyoa, interface_dia, loopback_type, bandwidth, cir, mtu,
\* routing_mode, vlan_id, ip_net, node_segment_idx, user_tunnel_endpoint:
\* each field is the bytes right after the field before it, and the decode
\* consumes the version byte and these fields, nothing for a field the
\* version does not have.  Checked on the buffers that hold a whole interface
\* of the version at the cursor.
C25_VersionSelectsFieldSequence ==
    LET v == idata[ioff + 1]
        \* the width of each field of the version, a name as its prefix and body
        w == IF v = 0 THEN <<1, 4 + StrLen, 1, 1, 2, 5, 2, 1>>
             ELSE <<1, 4 + StrLen, 1, 1, 1, 1, 8, 8, 2, 1, 2, 5, 2, 1>>
        \* where each field starts, counted from the byte after the version
        at == IF v = 0
              THEN <<0, 1, 5 + StrLen, 6 + StrLen, 7 + StrLen, 9 + StrLen,
                     14 + StrLen, 16 + StrLen>>
              ELSE <<0, 1, 5 + StrLen, 6 + StrLen, 7 + StrLen, 8 + StrLen,
                     9 + StrLen, 17 + StrLen, 25 + StrLen, 27 + StrLen,
                     28 + StrLen, 30 + StrLen, 35 + StrLen, 37 + StrLen>>
        total == IF v = 0 THEN 17 + StrLen ELSE 38 + StrLen
        raw(j) == SubSeq(idata, ioff + 1 + at[j] + 1, ioff + 1 + at[j] + w[j])
        expected(j) ==
            IF j = 2 THEN SubSeq(raw(j), 5, w[j])
            ELSE IF j = Len(w) /\ iimpl = "sdk" THEN raw(j)[1] # 0
            ELSE raw(j)
    IN  (/\ iout # NotDecoded
         /\ ioff < Len(idata)
         /\ v \in {0, 1}
         /\ \E fill \in 1..MaxFill :
                idata = Rep(ioff, 7) \o <<v>>
                            \o Encode(Fields(IF v = 0 THEN "InterfaceV1"
                                             ELSE "InterfaceV2"),
                                      1, "Interface", fill, 0)) =>
            /\ iout.ok
            /\ iout.val.version = v
            /\ iout.off = ioff + 1 + total
            /\ iout.off = Len(idata)
            /\ Len(iout.val.fields) = Len(w)
            /\ \A j \in 1..Len(w) : iout.val.fields[j] = expected(j)

\* A whole interface of version 0 was decoded by the lenient client, and its
\* eight fields came back.
C25_Witness ==
    /\ iout # NotDecoded
    /\ iimpl = "borsh"
    /\ ioff < Len(idata)
    /\ idata[ioff + 1] = 0
    /\ iout.ok
    /\ iout.off = Len(idata)
    /\ Len(iout.val.fields) = 8
    /\ Len(idata) = ioff + 18 + StrLen

---------------------------------------------------------------------------
(* Telemetry accounts: a header read with the strict reader, 128 reserved  *)
(* bytes, then raw u32 samples counted by next_sample_index.               *)

MAX_DEVICE_LATENCY_SAMPLES_PER_ACCOUNT == 35000

MAX_INTERNET_LATENCY_SAMPLES_PER_ACCOUNT == 3000

DEVICE_LATENCY_HEADER_SIZE == 1 + 8 + 32 * 6 + 8 + 8 + 4 + 128

\* The strict reads of a header in declared order; _read_pubkey(r) is
\* r.read_pubkey_raw() wrapped in a Pubkey.
HeaderReads(kind) ==
    IF kind = "device"
    THEN << "read_u8", "read_u64", "read_pubkey_raw", "read_pubkey_raw",
            "read_pubkey_raw", "read_pubkey_raw", "read_pubkey_raw",
            "read_pubkey_raw", "read_u64", "read_u64", "read_u32" >>
    ELSE << "read_u8", "read_u64", "read_string", "read_pubkey_raw",
            "read_pubkey_raw", "read_pubkey_raw", "read_u64", "read_u64",
            "read_u32" >>

\* The header reads from the i-th on; the first that raises ends the decode.
RECURSIVE ReadHeader(_, _, _, _)
ReadHeader(reads, i, d, st) ==
    IF i > Len(reads) \/ ~st.ok THEN st
    ELSE ReadHeader(reads, i + 1, d, Stored(st, StrictCall(reads[i], d, st.off), 0))

\* The sample loop without its break on a short remainder.
ReadSamples_no_break(d, off, next_sample_index, max) ==
    LET count == IF AsCount(next_sample_index) < max
                 THEN AsCount(next_sample_index) ELSE max
    IN  IF remaining(d, off) < 4 * count
        THEN Raise(off + 4 * (remaining(d, off) \div 4), "ValueError")
        ELSE Ok(off + 4 * count,
                [j \in 1..count |-> read_u32(d, off + 4 * (j - 1)).val])

\* count = min(next_sample_index, max), then for _ in range(count): break
\* when fewer than 4 bytes remain, else append r.read_u32().  The loop
\* appends n times: every iteration up to the n-th found 4 bytes remaining,
\* and the loop ended there because range(count) was exhausted or the next
\* iteration found fewer than 4.
ReadSamples(d, off, next_sample_index, max) ==
    LET count == IF AsCount(next_sample_index) < max
                 THEN AsCount(next_sample_index) ELSE max
        n == CHOOSE k \in 0..count :
                 /\ k = 0 \/ remaining(d, off + 4 * (k - 1)) >= 4
                 /\ k = count \/ remaining(d, off + 4 * k) < 4
    IN  Ok(off + 4 * n, [j \in 1..n |-> read_u32(d, off + 4 * (j - 1)).val])

\* What follows the length check of both decoders: the header reads,
\* r.read_bytes(128), the sample loop, and the construction of the result.
LatencySamples(kind, d, max) ==
    LET h == ReadHeader(HeaderReads(kind), 1, d, DecodeStart(0))
    IN  IF ~h.ok THEN Raise(h.off, h.err)
        ELSE LET reserved == read_bytes(d, h.off, 128)
             IN  IF ~reserved.ok THEN reserved
                 ELSE LET s == ReadSamples(d, reserved.off,
                                           h.fields[Len(h.fields)], max)
                      IN  IF ~s.ok THEN s
                          ELSE Ok(s.off, [fields |-> h.fields, samples |-> s.val])

DeviceLatencySamples_from_bytes(d) ==
    IF Len(d) < DEVICE_LATENCY_HEADER_SIZE THEN Raise(0, "data too short")
    ELSE LatencySamples("device", d, MAX_DEVICE_LATENCY_SAMPLES_PER_ACCOUNT)

InternetLatencySamples_from_bytes(d) ==
    IF Len(d) < 10 THEN Raise(0, "data too short")
    ELSE LatencySamples("internet", d, MAX_INTERNET_LATENCY_SAMPLES_PER_ACCOUNT)

---------------------------------------------------------------------------
(* Telemetry decoding as a state machine: an account buffer is chosen,     *)
(* then decoded by the decoder of its kind.                                *)

\* The per-account maximum of a kind.
MaxSamplesOf(kind) ==
    IF kind = "device" THEN MAX_DEVICE_LATENCY_SAMPLES_PER_ACCOUNT
    ELSE MAX_INTERNET_LATENCY_SAMPLES_PER_ACCOUNT

\* The bytes of an account before its samples: the header fields, the name
\* of namelen bytes for an internet account, next_sample_index as given,
\* 128 reserved bytes.
TelemetryHeader(kind, namelen, nsi) ==
    <<3>> \o Rep(8, 1)
        \o (IF kind = "device" THEN Rep(32 * 6, 2)
            ELSE U32(namelen) \o Rep(namelen, 65) \o Rep(32 * 3, 2))
        \o Rep(8, 3) \o Rep(8, 4) \o nsi \o Zeros(128)

\* An account with p samples, the j-th holding the number j, and stray
\* bytes after them.
TelemetryAccount(kind, namelen, nsi, p, stray) ==
    TelemetryHeader(kind, namelen, nsi)
        \o [i \in 1..(4 * p) |-> U32(((i - 1) \div 4) + 1)[((i - 1) % 4) + 1]]
        \o Rep(stray, 9)

\* The values of next_sample_index tried: small ones, the two maxima and
\* the numbers right above them, and numerals with high bytes set.
NextSampleIndexes ==
    { U32(n) : n \in 0..(MaxSamples + 1) }
        \cup { U32(MAX_INTERNET_LATENCY_SAMPLES_PER_ACCOUNT),
               U32(MAX_INTERNET_LATENCY_SAMPLES_PER_ACCOUNT + 1),
               U32(MAX_DEVICE_LATENCY_SAMPLES_PER_ACCOUNT),
               U32(MAX_DEVICE_LATENCY_SAMPLES_PER_ACCOUNT + 1),
               <<0, 0, 1, 0>>, <<255, 255, 255, 255>> }

NameLens(kind) == IF kind = "device" THEN {0} ELSE {0, StrLen}

\* Small accounts with every next_sample_index; accounts holding one sample
\* more than the maximum; and one account per name length cut at every byte.
TelemetryBuffers(kind) ==
    { TelemetryAccount(kind, l, nsi, p, stray) :
        l \in NameLens(kind), nsi \in NextSampleIndexes, p \in 0..MaxSamples,
        stray \in 0..3 }
    \cup { TelemetryAccount(kind, 0, nsi, MaxSamplesOf(kind) + 1, 0) :
             nsi \in { U32(MaxSamplesOf(kind)), U32(MaxSamplesOf(kind) + 1),
                       <<0, 0, 1, 0>> } }
    \cup UNION { { SubSeq(TelemetryAccount(kind, l, U32(1), 1, 0), 1, n) :
                     n \in 0..Len(TelemetryAccount(kind, l, U32(1), 1, 0)) } :
                 l \in NameLens(kind) }

InitTelemetry ==
    /\ tkind \in {"device", "internet"}
    /\ tdata \in TelemetryBuffers(tkind)
    /\ tout = NotDecoded
    /\ Idle("telemetry")

\* DeviceLatencySamples.from_bytes(data)
DecodeDeviceLatency ==
    /\ tkind = "device"
    /\ tout = NotDecoded
    /\ tout' = DeviceLatencySamples_from_bytes(tdata)
    /\ UNCHANGED <<tkind, tdata, readerVars, decodeVars, batchVars, fixedVars,
                   interfaceVars, retryVars>>

\* InternetLatencySamples.from_bytes(data)
DecodeInternetLatency ==
    /\ tkind = "internet"
    /\ tout = NotDecoded
    /\ tout' = InternetLatencySamples_from_bytes(tdata)
    /\ UNCHANGED <<tkind, tdata, readerVars, decodeVars, batchVars, fixedVars,
                   interfaceVars, retryVars>>

NextTelemetry == DecodeDeviceLatency \/ DecodeInternetLatency

SpecTelemetry == InitTelemetry /\ [][NextTelemetry]_vars

\* C28: when a telemetry decode gets past the header and the 128 reserved
\* bytes it succeeds, whatever next_sample_index says, with exactly
\* min(next_sample_index, the per-account maximum (35000 for a device
\* account, 3000 for an internet account), floor(remaining / 4)) samples; the
\* j-th sample is the j-th group of four bytes after the reserved region; the
\* cursor never passes the end of the buffer.
C28_SamplesBoundedByBuffer ==
    LET base == IF tkind = "device" THEN 349
                ELSE 257 + AsCount(SubSeq(tdata, 10, 13))
        nsi == AsCount(SubSeq(tdata, base - 131, base - 128))
        cap == IF tkind = "device" THEN 35000 ELSE 3000
        present == (Len(tdata) - base) \div 4
        a == IF nsi < cap THEN nsi ELSE cap
        expected == IF a < present THEN a ELSE present
    IN  (/\ tout # NotDecoded
         /\ Len(tdata) >= 13
         /\ Len(tdata) >= base
         /\ tkind = "internet" => ValidUtf8(SubSeq(tdata, 14, base - 244))) =>
            /\ tout.ok
            /\ Len(tout.val.samples) = expected
            /\ \A j \in 1..expected :
                   tout.val.samples[j]
                       = SubSeq(tdata, base + 4 * (j - 1) + 1, base + 4 * j)
            /\ tout.off = base + 4 * expected
            /\ tout.off <= Len(tdata)

\* An internet account holding 3001 samples, with a next_sample_index above
\* 3000, was decoded to 3000 samples.
C28_Witness ==
    /\ tout # NotDecoded
    /\ tkind = "internet"
    /\ tout.ok
    /\ Len(tdata) = 257 + 4 * 3001
    /\ AsCount(SubSeq(tdata, 126, 129)) > 3000
    /\ Len(tout.val.samples) = 3000
    /\ tout.val.samples[3000] = U32(3000)

\* C29: a buffer that passes the length check of its decoder (349 bytes or
\* more for a device account, 10 bytes or more for an internet account) is
\* decoded without a strict read raising for want of bytes.
C29_LengthCheckSuffices ==
    (/\ tout # NotDecoded
     /\ Len(tdata) >= (IF tkind = "device" THEN 349 ELSE 10)) =>
        tout.err # "ValueError"

---------------------------------------------------------------------------
(* _RetryTransport.handle_request as a process: each pass of its loop      *)
(* calls the wrapped transport, which answers with some status or raises,  *)
(* and then returns or closes the response and sleeps.                     *)

_DEFAULT_MAX_RETRIES == 5

\* The status codes the wrapped transport answers with.
Statuses == {200, 429, 500}

\* What calls records when the wrapped transport raised instead of
\* answering.
Exception == 0

\* if response.status_code != 429 or attempt >= self._max_retries, with
\* every status from 400 up taken for 429.
GivesUp_on_any_error(status, att, max) == status < 400 \/ att >= max

\* if response.status_code != 429 or attempt >= self._max_retries
GivesUp(status, att, max) == status # 429 \/ att >= max

\* new_rpc_client(url, timeout, max_retries) builds the transport;
\* handle_request(request) enters its loop with attempt = 0.  max_retries is
\* a count, 0 or more.
InitRetry ==
    /\ max_retries \in (0..MaxRetries) \cup {_DEFAULT_MAX_RETRIES}
    /\ attempt = 0
    /\ response = 0
    /\ rstatus = "calling"
    /\ calls = <<>>
    /\ closed = 0
    /\ slept = <<>>
    /\ Idle("retry")

\* response = self._wrapped.handle_request(request), then the test: return
\* response, or response.close() and go on to the sleep.
Request ==
    /\ rstatus = "calling"
    /\ \E status \in Statuses :
          /\ response' = status
          /\ calls' = Append(calls, status)
          /\ IF GivesUp(status, attempt, max_retries)
             THEN /\ rstatus' = "returned"
                  /\ closed' = closed
             ELSE /\ rstatus' = "sleeping"
                  /\ closed' = closed + 1
    /\ UNCHANGED <<max_retries, attempt, slept, readerVars, decodeVars, batchVars,
                   fixedVars, interfaceVars, telemetryVars>>

\* self._wrapped.handle_request(request) raises; nothing catches it.
RequestRaises ==
    /\ rstatus = "calling"
    /\ rstatus' = "raised"
    /\ calls' = Append(calls, Exception)
    /\ UNCHANGED <<max_retries, attempt, response, closed, slept, readerVars,
                   decodeVars, batchVars, fixedVars, interfaceVars, telemetryVars>>

\* time.sleep((attempt + 1) * 2), then the next pass of the loop, or the
\* return response after the loop when range(max_retries + 1) is used up.
Sleep ==
    /\ rstatus = "sleeping"
    /\ slept' = Append(slept, (attempt + 1) * 2)
    /\ attempt' = attempt + 1
    /\ rstatus' = IF attempt + 1 < max_retries + 1 THEN "calling" ELSE "returned"
    /\ UNCHANGED <<max_retries, response, calls, closed, readerVars, decodeVars,
                   batchVars, fixedVars, interfaceVars, telemetryVars>>

NextRetry == Request \/ RequestRaises \/ Sleep

\* handle_request runs on: a call of the wrapped transport ends (the client
\* is built with a timeout) and a sleep ends.
SpecRetry == InitRetry /\ [][NextRetry]_vars /\ WF_vars(NextRetry)

\* C30: handle_request ends, and it has called the wrapped transport at most
\* max_retries + 1 times: every response before the last was a 429 that was
\* closed and followed by a wait of (attempt + 1) * 2 seconds; it returns the
\* last response, which is the first that is not 429 or else the 429 of call
\* max_retries + 1; it raises only what the wrapped transport raised.
C30_RetryTerminates ==
    /\ [](/\ Len(calls) <= max_retries + 1
          /\ \A i \in 1..(Len(calls) - 1) : calls[i] = 429
          /\ \A i \in 1..closed : calls[i] = 429
          /\ \A i \in 1..Len(slept) : slept[i] = 2 * i
          /\ Len(slept) = (IF rstatus = "sleeping" THEN closed - 1 ELSE closed)
          /\ rstatus = "returned" =>
                /\ calls # <<>>
                /\ response = calls[Len(calls)]
                /\ closed = Len(calls) - 1
                /\ response = 429 => Len(calls) = max_retries + 1
          /\ rstatus = "raised" => calls[Len(calls)] = Exception)
    /\ <>(rstatus \in {"returned", "raised"})

\* A transport built with the default five retries got six 429 responses
\* and returned the sixth, having waited 2, 4, 6, 8 and 10 seconds.
C30_Witness ==
    /\ max_retries = 5
    /\ rstatus = "returned"
    /\ calls = <<429, 429, 429, 429, 429, 429>>
    /\ response = 429
    /\ closed = 5
    /\ slept = <<2, 4, 6, 8, 10>>

============================================================================
